---- MODULE Spec2Model ----
(***************************************************************************)
(* A model of x-to-script: the script generator's model fallback loop and  *)
(* response normalisation (src/script_generator.py), the id extraction of  *)
(* the thread parser and the text extractor, and the main pipeline.        *)
(*                                                                         *)
(* Python strings are sequences of atoms.  An atom is a chunk of           *)
(* characters that no operation of the program splits: a punctuation      *)
(* character, a white-space character, a word of [a-zA-Z0-9_], the digits  *)
(* of an integer with its sign, or a whole sentence.                       *)
(* Python values (None, bool, int, str, list, dict) are tagged records.    *)
(***************************************************************************)
EXTENDS Integers, Sequences, FiniteSets, TLC

(***************************************************************************)
(* Atoms of text.                                                          *)
(***************************************************************************)
LB == "{"
RB == "}"
LS == "["
RS == "]"
COLON == ":"
COMMA == ","
HASH == "#"
DQ == "dq"        \* the double quote character
BS == "bs"        \* the backslash character
NL == "nl"        \* the newline character
SP == "sp"        \* the space character

IsSpace(a) == a \in {SP, NL}
Punct == {LB, RB, LS, RS, COLON, COMMA, HASH, DQ, BS, NL, SP}

\* The integers that number literals of the modelled texts can denote.
MaxNum == 130
NumRange == (0 - MaxNum) .. MaxNum
IsNumAtom(a) == \E n \in NumRange : ToString(n) = a
NumOf(a) == CHOOSE n \in NumRange : ToString(n) = a

(***************************************************************************)
(* Python values.                                                          *)
(***************************************************************************)
JNull == [t |-> "null"]
JBool(b) == [t |-> "bool", b |-> b]
JNum(n) == [t |-> "num", n |-> n]
JStr(s) == [t |-> "str", s |-> s]
JArr(items) == [t |-> "arr", items |-> items]
\* A dict: its members <<key, value>> in insertion order.  A key that is a
\* string is its atoms; a key that is the int n is <<"int", ToString(n)>>,
\* which the atoms of no string equal.
JObj(m) == [t |-> "obj", m |-> m]
W(word) == JStr(<<word>>)
EmptyObj == JObj(<< >>)

IsObj(v) == v.t = "obj"
IsArr(v) == v.t = "arr"
IsNum(v) == v.t = "num"
IsStr(v) == v.t = "str"

\* Python truthiness: `not v` is ~Truthy(v).
Truthy(v) ==
  CASE v.t = "null" -> FALSE
    [] v.t = "bool" -> v.b
    [] v.t = "num" -> v.n # 0
    [] v.t = "str" -> Len(v.s) > 0
    [] v.t = "arr" -> Len(v.items) > 0
    [] v.t = "obj" -> Len(v.m) > 0

\* `k in d`, d[k], d.get(k, default) and d[k] = v for a dict d and a key word k.
Has(d, k) == \E i \in 1..Len(d.m) : d.m[i][1] = <<k>>
Item(d, k) == d.m[CHOOSE i \in 1..Len(d.m) : d.m[i][1] = <<k>>][2]
Get(d, k, default) == IF Has(d, k) THEN Item(d, k) ELSE default
PutKey(d, key, v) ==
  IF \E i \in 1..Len(d.m) : d.m[i][1] = key
  THEN JObj([i \in 1..Len(d.m) |-> IF d.m[i][1] = key THEN <<key, v>> ELSE d.m[i]])
  ELSE JObj(Append(d.m, <<key, v>>))
Put(d, k, v) == PutKey(d, <<k>>, v)
Keys(d) == {d.m[i][1] : i \in 1..Len(d.m)}

(***************************************************************************)
(* json.dumps with the default separators ", " and ": ".                   *)
(***************************************************************************)
\* A mark for a position that holds no character; no atom equals it.
Skip == "<skip>"
Kept(a) == a # Skip

\* The escapes json.dumps writes: each atom gives two positions, the
\* backslash or nothing, then the character.
EscapeAt(s, q) ==
  IF q % 2 = 1
  THEN (IF s[(q + 1) \div 2] \in {DQ, BS, NL} THEN BS ELSE Skip)
  ELSE (IF s[q \div 2] = NL THEN "n" ELSE s[q \div 2])
Escape(s) == SelectSeq([q \in 1..(2 * Len(s)) |-> EscapeAt(s, q)], Kept)

RECURSIVE json_dumps(_), DumpItems(_), DumpMembers(_)
json_dumps(v) ==
  CASE v.t = "null" -> <<"null">>
    [] v.t = "bool" -> IF v.b THEN <<"true">> ELSE <<"false">>
    [] v.t = "num" -> <<ToString(v.n)>>
    [] v.t = "str" -> <<DQ>> \o Escape(v.s) \o <<DQ>>
    [] v.t = "arr" -> <<LS>> \o DumpItems(v.items) \o <<RS>>
    [] v.t = "obj" -> <<LB>> \o DumpMembers(v.m) \o <<RB>>
DumpItems(items) ==
  IF items = << >> THEN << >>
  ELSE json_dumps(Head(items)) \o
       (IF Len(items) > 1 THEN <<COMMA, SP>> \o DumpItems(Tail(items)) ELSE << >>)
\* json.dumps writes an int key as the string of its digits.
KeyText(key) == IF Len(key) = 2 /\ key[1] = "int" THEN <<key[2]>> ELSE key
DumpMembers(m) ==
  IF m = << >> THEN << >>
  ELSE <<DQ>> \o Escape(KeyText(Head(m)[1])) \o <<DQ, COLON, SP>> \o json_dumps(Head(m)[2]) \o
       (IF Len(m) > 1 THEN <<COMMA, SP>> \o DumpMembers(Tail(m)) ELSE << >>)

(***************************************************************************)
(* json.loads: a recursive-descent parser.  A parse result is              *)
(* [ok, v, i]: whether a value was read, the value, and the index after it.*)
(***************************************************************************)
Bad == [ok |-> FALSE, v |-> JNull, i |-> 0]
Good(v, i) == [ok |-> TRUE, v |-> v, i |-> i]

RECURSIVE SkipWs(_, _)
SkipWs(s, i) == IF i <= Len(s) /\ IsSpace(s[i]) THEN SkipWs(s, i + 1) ELSE i

\* The number of backslashes right before index j, none of them before index i.
BackslashRun(s, i, j) ==
  IF \E q \in i..(j - 1) : s[q] # BS
  THEN (j - 1) - (CHOOSE q \in i..(j - 1) : s[q] # BS /\ \A m \in (q + 1)..(j - 1) : s[m] = BS)
  ELSE j - i
\* Index p of a string body that starts at i begins an escape, or is escaped.
EscapeStart(s, i, p) == s[p] = BS /\ BackslashRun(s, i, p) % 2 = 0
Escaped(s, i, p) == p > i /\ EscapeStart(s, i, p - 1)
\* The closing quote of the string body that starts at i, Len(s) + 1 if none.
ClosingQuote(s, i) ==
  IF \E j \in i..Len(s) : s[j] = DQ /\ ~Escaped(s, i, j)
  THEN CHOOSE j \in i..Len(s) :
         /\ s[j] = DQ /\ ~Escaped(s, i, j)
         /\ \A m \in i..(j - 1) : ~(s[m] = DQ /\ ~Escaped(s, i, m))
  ELSE Len(s) + 1
\* The character that index p of the body gives; the escapes of the modelled
\* texts are those json.dumps writes.
UnescapeAt(s, i, p) ==
  IF EscapeStart(s, i, p) THEN Skip
  ELSE IF Escaped(s, i, p) THEN (IF s[p] = "n" THEN NL ELSE s[p])
  ELSE s[p]
\* The string literal whose body starts at index i and ends before index e.
ParseStringTo(s, i, e) ==
  IF \/ e > Len(s)
     \/ \E p \in i..(e - 1) : s[p] = NL      \* a control character inside a string
     \/ \E p \in i..(e - 1) : Escaped(s, i, p) /\ s[p] \notin {DQ, BS, "n"}
  THEN Bad
  ELSE Good(JStr(SelectSeq([q \in 1..(e - i) |-> UnescapeAt(s, i, i + q - 1)], Kept)), e + 1)
ParseStringBody(s, i) == ParseStringTo(s, i, ClosingQuote(s, i))

RECURSIVE ParseValue(_, _), ParseItems(_, _, _), ParseMembers(_, _, _)
ParseValue(s, i) ==
  IF i > Len(s) THEN Bad
  ELSE CASE s[i] = DQ -> ParseStringBody(s, i + 1)
         [] s[i] = LS ->
              LET j == SkipWs(s, i + 1)
              IN IF j <= Len(s) /\ s[j] = RS THEN Good(JArr(<< >>), j + 1)
                 ELSE ParseItems(s, j, << >>)
         [] s[i] = LB ->
              LET j == SkipWs(s, i + 1)
              IN IF j <= Len(s) /\ s[j] = RB THEN Good(EmptyObj, j + 1)
                 ELSE ParseMembers(s, j, EmptyObj)
         [] s[i] = "null" -> Good(JNull, i + 1)
         [] s[i] = "true" -> Good(JBool(TRUE), i + 1)
         [] s[i] = "false" -> Good(JBool(FALSE), i + 1)
         [] OTHER -> IF IsNumAtom(s[i]) THEN Good(JNum(NumOf(s[i])), i + 1) ELSE Bad
\* The items of a list from index i (at an item) on.
ParseItems(s, i, acc) ==
  LET r == ParseValue(s, i)
      j == SkipWs(s, r.i)
  IN IF ~r.ok \/ j > Len(s) THEN Bad
     ELSE CASE s[j] = RS -> Good(JArr(Append(acc, r.v)), j + 1)
            [] s[j] = COMMA -> ParseItems(s, SkipWs(s, j + 1), Append(acc, r.v))
            [] OTHER -> Bad
\* The members of a dict from index i (at a key) on; a repeated key keeps its
\* first position and takes the last value.
ParseMembers(s, i, acc) ==
  IF i > Len(s) \/ s[i] # DQ THEN Bad
  ELSE LET k == ParseStringBody(s, i + 1)
           c == SkipWs(s, k.i)
       IN IF ~k.ok \/ c > Len(s) \/ s[c] # COLON THEN Bad
          ELSE LET r == ParseValue(s, SkipWs(s, c + 1))
                   j == SkipWs(s, r.i)
                   d == PutKey(acc, k.v.s, r.v)
               IN IF ~r.ok \/ j > Len(s) THEN Bad
                  ELSE CASE s[j] = RB -> Good(d, j + 1)
                         [] s[j] = COMMA -> ParseMembers(s, SkipWs(s, j + 1), d)
                         [] OTHER -> Bad

\* json.loads(s): [ok |-> FALSE] stands for json.JSONDecodeError.
json_loads(s) ==
  LET r == ParseValue(s, SkipWs(s, 1))
  IN IF r.ok /\ SkipWs(s, r.i) > Len(s) THEN [ok |-> TRUE, v |-> r.v]
     ELSE [ok |-> FALSE, v |-> JNull]

(***************************************************************************)
(* ScriptGenerator.validate_and_enhance_timing and                         *)
(* create_enhanced_visual_timeline.  Both run inside try/except Exception  *)
(* and mutate script_data in place: when a statement raises, the dict is   *)
(* returned as it was mutated so far.  `exc` marks that a statement raised.*)
(***************************************************************************)
SectionNames == <<"hook", "intro", "explainer">>
HookDefault == 15
IntroDefault == 15
ExplainerDefault == 30
TotalDefault == 60
CueDurationDefault == 3
NarrationLen == 100

\* int and bool are the Python numbers of the model (True == 1, False == 0).
IsNumber(v) == v.t \in {"num", "bool"}
NumVal(v) == IF v.t = "bool" THEN (IF v.b THEN 1 ELSE 0) ELSE v.n
IsHashable(v) == v.t \notin {"arr", "obj"}

DefaultDuration(section_name) ==
  CASE section_name = "hook" -> HookDefault
    [] section_name = "intro" -> IntroDefault
    [] OTHER -> ExplainerDefault

\* The new timestamp of a cue that lies at or after the end of its section.
LateCueTimestamp(current_timestamp, section_duration, cue_duration) ==
  current_timestamp + section_duration - cue_duration

\* Lines 486-488, for the cue as lines 480-483 left it.
ClampCueDuration(cue, cue_duration, window_end) ==
  IF ~Has(cue, "timestamp") \/ ~IsNumber(cue_duration)
  THEN [cue |-> cue, exc |-> TRUE]     \* KeyError, TypeError
  ELSE [cue |-> IF NumVal(cue_duration) > window_end - NumVal(Item(cue, "timestamp"))
                THEN Put(cue, "duration", JNum(window_end - NumVal(Item(cue, "timestamp"))))
                ELSE cue,
        exc |-> FALSE]

\* Lines 480-488 for a cue that is a dict.
ClampCueTimestamp(cue, cue_timestamp, cue_duration, current_timestamp, section_duration) ==
  IF ~IsNumber(cue_timestamp) THEN [cue |-> cue, exc |-> TRUE]
  ELSE IF NumVal(cue_timestamp) < current_timestamp
  THEN ClampCueDuration(Put(cue, "timestamp", JNum(current_timestamp)), cue_duration,
                        current_timestamp + section_duration)
  ELSE IF NumVal(cue_timestamp) >= current_timestamp + section_duration
  THEN IF ~IsNumber(cue_duration) THEN [cue |-> cue, exc |-> TRUE]
       ELSE ClampCueDuration(
              Put(cue, "timestamp",
                  JNum(LateCueTimestamp(current_timestamp, section_duration, NumVal(cue_duration)))),
              cue_duration, current_timestamp + section_duration)
  ELSE ClampCueDuration(cue, cue_duration, current_timestamp + section_duration)

\* Lines 476-488 for one cue: [cue, exc].
ClampCue(cue, current_timestamp, section_duration) ==
  IF ~IsObj(cue) THEN [cue |-> cue, exc |-> TRUE]
  ELSE ClampCueTimestamp(cue, Get(cue, "timestamp", JNum(0)),
                         Get(cue, "duration", JNum(CueDurationDefault)),
                         current_timestamp, section_duration)

\* The loop over visual_cues (line 475) on [done, exc], the cues handled so
\* far; the cues after the one that raised are left as they were.
RECURSIVE ClampCues(_, _, _, _)
CueClamped(c, cues, current_timestamp, section_duration, done) ==
  IF c.exc THEN [cues |-> Append(done, c.cue) \o Tail(cues), exc |-> TRUE]
  ELSE ClampCues(Tail(cues), current_timestamp, section_duration, Append(done, c.cue))
ClampCues(cues, current_timestamp, section_duration, done) ==
  IF cues = << >> THEN [cues |-> done, exc |-> FALSE]
  ELSE CueClamped(ClampCue(Head(cues), current_timestamp, section_duration),
                  cues, current_timestamp, section_duration, done)

\* The state [d, cur, exc] of the loop over the sections: the dict,
\* current_timestamp, and whether a statement raised.
\* A section that script_data does not hold is a fresh dict: its mutation is lost.
StoreSection(st, section_name, section, section_duration, exc) ==
  [d |-> IF Has(st.d, section_name) THEN Put(st.d, section_name, section) ELSE st.d,
   cur |-> IF exc THEN st.cur ELSE st.cur + section_duration,
   exc |-> exc]

\* Line 475 has run over the list visual_cues with the outcome r.
CuesClamped(st, section_name, section, section_duration, r) ==
  StoreSection(st, section_name,
               IF Has(section, "visual_cues") THEN Put(section, "visual_cues", JArr(r.cues))
               ELSE section,
               section_duration, r.exc)

\* Lines 473-490 for the section with its duration settled.
ValidateCues(st, section_name, section, section_duration, visual_cues) ==
  CASE IsArr(visual_cues) ->
         CuesClamped(st, section_name, section, section_duration,
                     ClampCues(visual_cues.items, st.cur, section_duration, << >>))
    \* iterating a str or a dict yields strings, on which .get raises
    [] visual_cues.t \in {"str", "obj"} /\ ~Truthy(visual_cues) ->
         StoreSection(st, section_name, section, section_duration, FALSE)
    [] OTHER -> StoreSection(st, section_name, section, section_duration, TRUE)

AlwaysDefaultDuration(st, section_name, section, given) ==
  ValidateCues(st, section_name,
               Put(section, "duration_seconds", JNum(DefaultDuration(section_name))),
               DefaultDuration(section_name), Get(section, "visual_cues", JArr(<< >>)))
\* Lines 461-471 for a section that is a dict, given its duration_seconds.
ValidateDuration(st, section_name, section, given) ==
  IF ~IsNumber(given) THEN [st EXCEPT !.exc = TRUE]
  ELSE IF NumVal(given) <= 0
  THEN ValidateCues(st, section_name,
                    Put(section, "duration_seconds", JNum(DefaultDuration(section_name))),
                    DefaultDuration(section_name), Get(section, "visual_cues", JArr(<< >>)))
  ELSE ValidateCues(st, section_name, section, NumVal(given),
                    Get(section, "visual_cues", JArr(<< >>)))

\* One round of the loop over the sections (lines 459-490).
ValidateSectionDict(st, section_name, section) ==
  IF ~IsObj(section) THEN [st EXCEPT !.exc = TRUE]
  ELSE ValidateDuration(st, section_name, section, Get(section, "duration_seconds", JNum(0)))
ValidateSection(st, section_name) ==
  IF st.exc THEN st
  ELSE ValidateSectionDict(st, section_name, Get(st.d, section_name, EmptyObj))

\* The loop of line 459 over the section names.
RECURSIVE ValidateSections(_, _)
ValidateSections(st, names) ==
  IF names = << >> THEN st
  ELSE ValidateSections(ValidateSection(st, Head(names)), Tail(names))

CueTypeMapping(cue_type) ==
  CASE cue_type = W("tweet_display") -> W("main_tweet")
    [] cue_type = W("reply_highlight") -> W("reply_tweet")
    [] cue_type = W("text_overlay") -> W("text_overlay")
    [] cue_type = W("transition") -> W("transition")
    [] cue_type = W("effect") -> W("effect")
    [] OTHER -> W("text_overlay")

NewTweetReference ==
  JObj(<< <<<<"usage_count">>, JNum(0)>>, <<<<"display_timestamps">>, JArr(<< >>)>>,
          <<<<"display_style">>, W("full_tweet")>>, <<<<"highlight_text">>, JArr(<< >>)>>,
          <<<<"author_focus">>, JBool(FALSE)>>, <<<<"media_included">>, JBool(FALSE)>> >>)

\* The dict key that a hashable id is; True and 1 are one key.
KeyOf(id) == IF IsStr(id) THEN id.s ELSE <<"int", ToString(NumVal(id))>>
\* update_tweet_references for an id that is hashable.
CountUsage(tweet_references, key, had, timestamp) ==
  PutKey(tweet_references, key,
         Put(Put(had, "usage_count", JNum(Item(had, "usage_count").n + 1)),
             "display_timestamps",
             JArr(Append(Item(had, "display_timestamps").items, JNum(timestamp)))))
update_tweet_references(tweet_references, tweet_id, timestamp) ==
  CountUsage(tweet_references, KeyOf(tweet_id),
             IF \E i \in 1..Len(tweet_references.m) : tweet_references.m[i][1] = KeyOf(tweet_id)
             THEN tweet_references.m[CHOOSE i \in 1..Len(tweet_references.m) :
                                       tweet_references.m[i][1] = KeyOf(tweet_id)][2]
             ELSE NewTweetReference,
             timestamp)

Take(s, n) == SubSeq(s, 1, IF Len(s) < n THEN Len(s) ELSE n)

\* Lines 534-545: the event of a cue.
NewEvent(cue, presentation, timestamp) ==
  JObj(<<
    <<<<"timestamp">>, JNum(timestamp)>>,
    <<<<"duration">>, Get(cue, "duration", JNum(CueDurationDefault))>>,
    <<<<"visual_type">>, CueTypeMapping(Get(cue, "type", JStr(<< >>)))>>,
    <<<<"content">>, Get(cue, "content", JStr(<< >>))>>,
    <<<<"presentation_details">>, JObj(<<
        <<<<"animation_in">>, Get(presentation, "animation", W("fade_in"))>>,
        <<<<"animation_out">>, W("fade_out")>>,
        <<<<"position">>, Get(presentation, "position", W("center"))>>,
        <<<<"size">>, W("medium")>> >>)>> >>)

\* Lines 548-554: the tweet or reply id of the cue, on [event, refs].
AddReference(er, key, id, timestamp) ==
  IF Truthy(id)
  THEN [event |-> Put(er.event, key, id),
        refs |-> update_tweet_references(er.refs, id, timestamp)]
  ELSE er

\* Lines 557-562.
AddNarration(er, text) ==
  [event |-> Put(er.event, "sync_with_narration",
                 JObj(<< <<<<"narration_text">>,
                           IF IsStr(text) THEN JStr(Take(text.s, NarrationLen))
                           ELSE JArr(Take(text.items, NarrationLen))>>,
                         <<<<"timing_cue">>, W("during_word")>> >>)),
   refs |-> er.refs,
   exc |-> FALSE]

\* The event of one cue (lines 534-560): [event, refs, exc].
TimelineEventAt(cue, text, timestamp, refs) ==
  AddNarration(
    AddReference(
      AddReference([event |-> NewEvent(cue, Get(cue, "presentation", EmptyObj), timestamp),
                    refs |-> refs],
                   "tweet_id", Get(cue, "tweet_id", JNull), timestamp),
      "reply_id", Get(cue, "reply_id", JNull), timestamp),
    text)

\* The statements of lines 534-560 raise on these values.
EventRaises(cue, text) ==
  \/ ~IsObj(cue)
  \/ ~IsNumber(Get(cue, "timestamp", JNum(0)))
  \/ ~IsObj(Get(cue, "presentation", EmptyObj))
  \/ ~IsHashable(Get(cue, "type", JStr(<< >>)))
  \/ (Truthy(Get(cue, "tweet_id", JNull)) /\ ~IsHashable(Get(cue, "tweet_id", JNull)))
  \/ (Truthy(Get(cue, "reply_id", JNull)) /\ ~IsHashable(Get(cue, "reply_id", JNull)))
  \/ text.t \notin {"str", "arr"}

TimelineEvent(cue, section, current_timestamp, refs) ==
  IF EventRaises(cue, Get(section, "text", JStr(<< >>)))
  THEN [event |-> JNull, refs |-> refs, exc |-> TRUE]
  ELSE TimelineEventAt(cue, Get(section, "text", JStr(<< >>)),
                       current_timestamp + NumVal(Get(cue, "timestamp", JNum(0))), refs)

\* The loop over the cues of one section (line 532) on [events, refs, exc].
EventAdded(acc, e) ==
  [events |-> IF e.exc THEN acc.events ELSE Append(acc.events, e.event),
   refs |-> e.refs,
   exc |-> e.exc]
RECURSIVE TimelineEvents(_, _, _, _)
TimelineEvents(cues, section, current_timestamp, acc) ==
  IF cues = << >> \/ acc.exc THEN acc
  ELSE TimelineEvents(Tail(cues), section, current_timestamp,
                      EventAdded(acc, TimelineEvent(Head(cues), section, current_timestamp,
                                                    acc.refs)))

SectionTransition(current_timestamp, section_duration) ==
  JObj(<< <<<<"from_timestamp">>, JNum(current_timestamp + section_duration - 1)>>,
          <<<<"to_timestamp">>, JNum(current_timestamp + section_duration + 1)>>,
          <<<<"transition_type">>, W("fade")>>,
          <<<<"duration">>, JNum(1)>>,
          <<<<"easing">>, W("ease_in_out")>> >>)

\* Lines 564-574, after the cues of the section gave r; the state of the loop
\* over the sections is [events, refs, transitions, cur, exc].
SectionDone(st, r, section_duration, total_duration) ==
  IF r.exc \/ ~IsNumber(section_duration) \/ ~IsNumber(total_duration)
  THEN [st EXCEPT !.exc = TRUE]
  ELSE [events |-> r.events,
        refs |-> r.refs,
        transitions |-> IF st.cur + NumVal(section_duration) < NumVal(total_duration)
                        THEN Append(st.transitions,
                                    SectionTransition(st.cur, NumVal(section_duration)))
                        ELSE st.transitions,
        cur |-> st.cur + NumVal(section_duration),
        exc |-> FALSE]

\* Lines 528-574 for a section that is a dict.
TimelineCues(st, section, visual_cues, total_duration) ==
  IF IsArr(visual_cues)
  THEN SectionDone(st,
                   TimelineEvents(visual_cues.items, section, st.cur,
                                  [events |-> st.events, refs |-> st.refs, exc |-> FALSE]),
                   Get(section, "duration_seconds", JNum(0)), total_duration)
  ELSE IF visual_cues.t \in {"str", "obj"} /\ ~Truthy(visual_cues)
  THEN SectionDone(st, [events |-> st.events, refs |-> st.refs, exc |-> FALSE],
                   Get(section, "duration_seconds", JNum(0)), total_duration)
  ELSE [st EXCEPT !.exc = TRUE]

\* One round of the loop over the sections (lines 527-574).
TimelineSectionDict(st, section, total_duration) ==
  IF ~IsObj(section) THEN [st EXCEPT !.exc = TRUE]
  ELSE TimelineCues(st, section, Get(section, "visual_cues", JArr(<< >>)), total_duration)
TimelineSection(script_data, total_duration, st, section_name) ==
  IF st.exc THEN st
  ELSE TimelineSectionDict(st, Get(script_data, section_name, EmptyObj), total_duration)

\* The loop of line 527 over the section names.
RECURSIVE TimelineSections(_, _, _, _)
TimelineSections(script_data, total_duration, st, names) ==
  IF names = << >> THEN st
  ELSE TimelineSections(script_data, total_duration,
                        TimelineSection(script_data, total_duration, st, Head(names)),
                        Tail(names))

NewVisualTimeline(total_duration) ==
  JObj(<< <<<<"total_duration">>, total_duration>>,
          <<<<"timeline_events">>, JArr(<< >>)>>,
          <<<<"tweet_references">>, EmptyObj>>,
          <<<<"visual_transitions">>, JArr(<< >>)>> >>)

\* A rebuild that keeps the timeline_events of a timeline that has some.
KeepSuppliedEvents(script_data, visual_timeline, st) ==
  IF st.exc \/ ~IsObj(visual_timeline) THEN script_data
  ELSE Put(script_data, "visual_timeline",
           Put(Put(Put(visual_timeline, "timeline_events",
                       IF Truthy(Get(visual_timeline, "timeline_events", JNull))
                       THEN Item(visual_timeline, "timeline_events") ELSE JArr(st.events)),
                   "tweet_references", st.refs),
               "visual_transitions", JArr(st.transitions)))
\* Lines 576-581: the three lists are stored, unless a statement has raised.
StoreTimeline(script_data, visual_timeline, st) ==
  IF st.exc \/ ~IsObj(visual_timeline) THEN script_data
  ELSE Put(script_data, "visual_timeline",
           Put(Put(Put(visual_timeline, "timeline_events", JArr(st.events)),
                   "tweet_references", st.refs),
               "visual_transitions", JArr(st.transitions)))

\* Lines 521-581 for script_data that holds a visual_timeline.
BuildTimeline(script_data, total_duration) ==
  StoreTimeline(script_data, Item(script_data, "visual_timeline"),
                TimelineSections(script_data, total_duration,
                                 [events |-> << >>, refs |-> EmptyObj, transitions |-> << >>,
                                  cur |-> 0, exc |-> FALSE],
                                 SectionNames))

NoTimeline(script_data, total_duration) == script_data
\* script_data is a dict here: validate_and_enhance_timing has called .get on it.
create_enhanced_visual_timeline(script_data, total_duration) ==
  IF ~Has(script_data, "visual_timeline")
  THEN BuildTimeline(Put(script_data, "visual_timeline", NewVisualTimeline(total_duration)),
                     total_duration)
  ELSE BuildTimeline(script_data, total_duration)

\* Lines 492-495, after the loop over the sections ended in st.
SectionsValidated(st, total_duration) ==
  IF st.exc THEN st.d ELSE create_enhanced_visual_timeline(st.d, total_duration)

\* Lines 455-495 for script_data that is a non-empty dict.
ValidateWithMetadata(script_data, metadata) ==
  IF ~IsObj(metadata) THEN script_data
  ELSE SectionsValidated(ValidateSections([d |-> script_data, cur |-> 0, exc |-> FALSE],
                                          SectionNames),
                         Get(metadata, "total_duration", JNum(TotalDefault)))

validate_and_enhance_timing(script_data) ==
  IF ~Truthy(script_data) \/ ~IsObj(script_data) THEN script_data
  ELSE ValidateWithMetadata(script_data, Get(script_data, "metadata", EmptyObj))

(***************************************************************************)
(* ScriptGenerator._fix_common_json_errors: four re.sub passes.            *)
(***************************************************************************)
FENCE == "fence"     \* a line of three backticks
\* Atoms that hold a character outside [a-zA-Z0-9_]: whole sentences.
SentenceAtoms ==
  {"Generated content could not be parsed as JSON", "Check raw content below",
   "Please review the raw generated content", "Manual formatting needed",
   "The AI generated content but not in expected format", "Review and reformat manually",
   "JSON parsing failed", "Generated content was not in expected JSON format",
   "Here is the script", "Hope this helps!"}
IsWord(a) ==
  /\ a \notin Punct \cup SentenceAtoms \cup {FENCE}
  /\ ~(IsNumAtom(a) /\ NumOf(a) < 0)

RECURSIVE WordRunEnd(_, _)
WordRunEnd(s, i) == IF i <= Len(s) /\ IsWord(s[i]) THEN WordRunEnd(s, i + 1) ELSE i

\* re.sub scans from the left: the first index from i on where Match holds,
\* Len(s) + 1 when there is none.
FirstFrom(s, i, Match(_, _)) ==
  IF \E j \in i..Len(s) : Match(s, j)
  THEN CHOOSE j \in i..Len(s) : Match(s, j) /\ \A m \in i..(j - 1) : ~Match(s, m)
  ELSE Len(s) + 1

\* Line 1053: a quote is put before a # that follows white space and is
\* followed by a word and a quote; from index i on.
HashtagAt(s, i) ==
  LET h == SkipWs(s, i)
      e == WordRunEnd(s, h + 1)
  IN IsSpace(s[i]) /\ h <= Len(s) /\ s[h] = HASH /\ e > h + 1 /\ e <= Len(s) /\ s[e] = DQ
RECURSIVE QuoteHashtags(_, _)
QuoteHashtags(s, i) ==
  LET j == FirstFrom(s, i, HashtagAt)
      h == SkipWs(s, j)
      e == WordRunEnd(s, h + 1)
  IN IF j > Len(s) THEN SubSeq(s, i, Len(s))
     ELSE SubSeq(s, i, h - 1) \o <<DQ>> \o SubSeq(s, h, e) \o QuoteHashtags(s, e + 1)

\* The index of the first atom a at or after i, Len(s) + 1 when there is none.
IndexFrom(s, a, i) ==
  IF \E j \in i..Len(s) : s[j] = a
  THEN CHOOSE j \in i..Len(s) : s[j] = a /\ \A m \in i..(j - 1) : s[m] # a
  ELSE Len(s) + 1

\* Lines 1061-1067: the quoted items of content, each given its leading #.
RECURSIVE FixedItems(_, _)
FixedItems(content, i) ==
  LET a == IndexFrom(content, DQ, i)
      b == IndexFrom(content, DQ, a + 1)
      item == SubSeq(content, a + 1, b - 1)
  IN IF b > Len(content) THEN << >>
     ELSE <<IF item # << >> /\ item[1] # HASH
            THEN <<DQ, HASH>> \o item \o <<DQ>>
            ELSE <<DQ>> \o item \o <<DQ>> >>
          \o FixedItems(content, b + 1)

RECURSIVE Join(_)
Join(items) ==
  IF items = << >> THEN << >>
  ELSE Head(items) \o (IF Len(items) > 1 THEN <<COMMA, SP>> \o Join(Tail(items)) ELSE << >>)

\* Lines 1057-1070: every hashtags array, up to its first closing bracket, is
\* rewritten from its quoted items; from index i on.
HashtagArrayAt(s, i) ==
  LET o == SkipWs(s, i + 4)
  IN /\ i + 3 <= Len(s)
     /\ SubSeq(s, i, i + 3) = <<DQ, "hashtags", DQ, COLON>>
     /\ o <= Len(s) /\ s[o] = LS
     /\ IndexFrom(s, RS, o + 1) <= Len(s)
RECURSIVE FixHashtagArrays(_, _)
FixHashtagArrays(s, i) ==
  LET j == FirstFrom(s, i, HashtagArrayAt)
      o == SkipWs(s, j + 4)
      c == IndexFrom(s, RS, o + 1)
  IN IF j > Len(s) THEN SubSeq(s, i, Len(s))
     ELSE SubSeq(s, i, j - 1) \o <<DQ, "hashtags", DQ, COLON, SP, LS>>
          \o Join(FixedItems(SubSeq(s, o + 1, c - 1), 1)) \o <<RS>>
          \o FixHashtagArrays(s, c + 1)

\* Line 1073: a comma before white space and a closing brace or bracket is
\* dropped; from index i on.
TrailingCommaAt(s, i) ==
  s[i] = COMMA /\ SkipWs(s, i + 1) <= Len(s) /\ s[SkipWs(s, i + 1)] \in {RB, RS}
RECURSIVE StripTrailingCommas(_, _)
StripTrailingCommas(s, i) ==
  LET j == FirstFrom(s, i, TrailingCommaAt)
      c == SkipWs(s, j + 1)
  IN IF j > Len(s) THEN SubSeq(s, i, Len(s))
     ELSE SubSeq(s, i, j - 1) \o SubSeq(s, j + 1, c) \o StripTrailingCommas(s, c + 1)

\* Line 1076: two quotes with only white space holding a newline between them
\* get a comma, a newline and twelve spaces between them; from index i on.
CommaIndent == 12
MissingCommaAt(s, i) ==
  LET c == SkipWs(s, i + 1)
  IN s[i] = DQ /\ c <= Len(s) /\ s[c] = DQ /\ \E k \in (i + 1)..(c - 1) : s[k] = NL
RECURSIVE AddMissingCommas(_, _)
AddMissingCommas(s, i) ==
  LET j == FirstFrom(s, i, MissingCommaAt)
  IN IF j > Len(s) THEN SubSeq(s, i, Len(s))
     ELSE SubSeq(s, i, j - 1) \o <<DQ, COMMA, NL>> \o [k \in 1..CommaIndent |-> SP] \o <<DQ>>
          \o AddMissingCommas(s, SkipWs(s, j + 1) + 1)

fix_common_json_errors(json_content) ==
  LET s1 == QuoteHashtags(json_content, 1)
      s2 == FixHashtagArrays(s1, 1)
      s3 == StripTrailingCommas(s2, 1)
  IN AddMissingCommas(s3, 1)

(***************************************************************************)
(* generate_script, lines 956-1034: the parse cascade and the placeholder. *)
(***************************************************************************)
\* Line 973, the greedy DOTALL search: from the first { to the last }.
LastIndex(s, a) ==
  IF \E j \in 1..Len(s) : s[j] = a
  THEN CHOOSE j \in 1..Len(s) : s[j] = a /\ \A m \in (j + 1)..Len(s) : s[m] # a
  ELSE 0
BraceMatch(s) ==
  LET first == IndexFrom(s, LB, 1)
      last == LastIndex(s, RB)
  IN IF first <= Len(s) /\ last > first
     THEN [found |-> TRUE, text |-> SubSeq(s, first, last)]
     ELSE [found |-> FALSE, text |-> << >>]

PlaceholderSection(text, seconds, suggestion) ==
  JObj(<< <<<<"text">>, W(text)>>,
          <<<<"duration_seconds">>, JNum(seconds)>>,
          <<<<"visual_suggestions">>, JArr(<<W(suggestion)>>)>> >>)

MetadataWithoutRawContent(generated_content, style, target_duration) ==
  JObj(<< <<<<"total_duration">>, JNum(target_duration)>>,
          <<<<"style">>, W(style)>>,
          <<<<"key_points">>, JArr(<<W("JSON parsing failed")>>)>>,
          <<<<"hashtags">>, JArr(<<JStr(<<HASH, "error">>),
                                   JStr(<<HASH, "manual_review_needed">>)>>)>>,
          <<<<"error">>, W("Generated content was not in expected JSON format")>> >>)
\* Lines 1026-1033.
PlaceholderMetadata(generated_content, style, target_duration) ==
  JObj(<< <<<<"total_duration">>, JNum(target_duration)>>,
          <<<<"style">>, W(style)>>,
          <<<<"key_points">>, JArr(<<W("JSON parsing failed")>>)>>,
          <<<<"hashtags">>, JArr(<<JStr(<<HASH, "error">>),
                                   JStr(<<HASH, "manual_review_needed">>)>>)>>,
          <<<<"raw_content">>, JStr(generated_content)>>,
          <<<<"error">>, W("Generated content was not in expected JSON format")>> >>)

\* Lines 1010-1034.
Placeholder(generated_content, style, target_duration) ==
  JObj(<<
    <<<<"hook">>, PlaceholderSection("Generated content could not be parsed as JSON",
                                     15, "Check raw content below")>>,
    <<<<"intro">>, PlaceholderSection("Please review the raw generated content",
                                      15, "Manual formatting needed")>>,
    <<<<"explainer">>, PlaceholderSection("The AI generated content but not in expected format",
                                          30, "Review and reformat manually")>>,
    <<<<"metadata">>, PlaceholderMetadata(generated_content, style, target_duration)>> >>)

\* The parse cascade of lines 956-1003 gives [stage, v]: the stage that parsed
\* the text, "direct", "extracted" or "fixed", and the parsed value; the stage
\* is "placeholder" when every parse has failed.
NotParsed == [stage |-> "placeholder", v |-> JNull]
\* Lines 976-1003, for the text of the brace match.
ParseExtracted(json_content) ==
  LET extracted == json_loads(json_content)
      fixed_json == fix_common_json_errors(json_content)
      fixed == json_loads(fixed_json)
  IN IF extracted.ok THEN [stage |-> "extracted", v |-> extracted.v]
     ELSE IF fixed_json # json_content /\ fixed.ok THEN [stage |-> "fixed", v |-> fixed.v]
     ELSE NotParsed
ParseCascade(generated_content) ==
  LET direct == json_loads(generated_content)
      json_match == BraceMatch(generated_content)
  IN IF direct.ok THEN [stage |-> "direct", v |-> direct.v]
     ELSE IF json_match.found THEN ParseExtracted(json_match.text)
     ELSE NotParsed

\* The value generate_script returns for the stripped model output.
NormalizeParsed(parsed, generated_content, style, target_duration) ==
  IF parsed.stage = "placeholder"
  THEN Placeholder(generated_content, style, target_duration)
  ELSE validate_and_enhance_timing(parsed.v)
NormalizeResponse(generated_content, style, target_duration) ==
  NormalizeParsed(ParseCascade(generated_content), generated_content, style, target_duration)

(***************************************************************************)
(* Python operations on the values of a scraped record.                    *)
(***************************************************************************)
SLASH == "/"
AT == "@"
\* The outcome of an expression: its value, or exc when it raises.
Value(v) == [exc |-> FALSE, v |-> v]
Raises == [exc |-> TRUE, v |-> JNull]

\* `a or b`.
Or(a, b) == IF Truthy(a) THEN a ELSE b
\* d.get(k1) or d.get(k2) or ... for a dict d: the first truthy value, and the
\* value of the last key (None when absent) if there is none.
RECURSIVE GetFirstTruthy(_, _)
GetFirstTruthy(d, keys) ==
  IF Len(keys) = 1 THEN Get(d, keys[1], JNull)
  ELSE Or(Get(d, Head(keys), JNull), GetFirstTruthy(d, Tail(keys)))
\* if k1 in d: d[k1] elif k2 in d: d[k2] ... for a dict d, None if no key is in d.
RECURSIVE GetFirstPresent(_, _)
GetFirstPresent(d, keys) ==
  IF keys = << >> THEN JNull
  ELSE IF Has(d, Head(keys)) THEN Item(d, Head(keys))
  ELSE GetFirstPresent(d, Tail(keys))

\* `k in c` for a key word k raises unless c is a dict, a list or a str.
IsContainer(c) == c.t \in {"obj", "arr", "str"}
In(k, c) ==
  CASE IsObj(c) -> Has(c, k)
    [] IsArr(c) -> \E i \in 1..Len(c.items) : c.items[i] = W(k)
    [] IsStr(c) -> \E i \in 1..Len(c.s) : c.s[i] = k

\* str(v), as an f-string formats v; repr(v) inside a list or a dict.
ReprAt(s, q) ==
  IF q % 2 = 1
  THEN (IF s[(q + 1) \div 2] \in {BS, NL} THEN BS ELSE Skip)
  ELSE (IF s[q \div 2] = NL THEN "n" ELSE s[q \div 2])
RECURSIVE PyRepr(_), ReprItems(_), ReprMembers(_)
PyRepr(v) ==
  CASE v.t = "null" -> <<"None">>
    [] v.t = "bool" -> IF v.b THEN <<"True">> ELSE <<"False">>
    [] v.t = "num" -> <<ToString(v.n)>>
    [] v.t = "str" -> <<"'">> \o SelectSeq([q \in 1..(2 * Len(v.s)) |-> ReprAt(v.s, q)], Kept)
                      \o <<"'">>
    [] v.t = "arr" -> <<LS>> \o ReprItems(v.items) \o <<RS>>
    [] v.t = "obj" -> <<LB>> \o ReprMembers(v.m) \o <<RB>>
ReprItems(items) ==
  IF items = << >> THEN << >>
  ELSE PyRepr(Head(items)) \o
       (IF Len(items) > 1 THEN <<COMMA, SP>> \o ReprItems(Tail(items)) ELSE << >>)
ReprMembers(m) ==
  IF m = << >> THEN << >>
  ELSE (IF Len(Head(m)[1]) = 2 /\ Head(m)[1][1] = "int" THEN <<Head(m)[1][2]>>
        ELSE PyRepr(JStr(Head(m)[1])))
       \o <<COLON, SP>> \o PyRepr(Head(m)[2]) \o
       (IF Len(m) > 1 THEN <<COMMA, SP>> \o ReprMembers(Tail(m)) ELSE << >>)
PyStr(v) == IF IsStr(v) THEN v.s ELSE PyRepr(v)

\* s.split(sep): the parts of s between the atoms sep.
RECURSIVE Split(_, _)
Split(s, sep) ==
  IF IndexFrom(s, sep, 1) > Len(s) THEN <<s>>
  ELSE <<SubSeq(s, 1, IndexFrom(s, sep, 1) - 1)>>
       \o Split(SubSeq(s, IndexFrom(s, sep, 1) + 1, Len(s)), sep)

\* The user name in a reply URL such as https://x.com/username/status/123,
\* None when the URL has none; rejected holds the path parts that are no name.
UrlUsername(url, rejected) ==
  IF /\ Len(Split(url.s, SLASH)) >= 4
     /\ Split(url.s, SLASH)[3] \in {<<"x.com">>, <<"twitter.com">>}
     /\ Split(url.s, SLASH)[4] \notin rejected
  THEN JStr(Split(url.s, SLASH)[4])
  ELSE JNull

(***************************************************************************)
(* thread_parser: _extract_tweet_id and _extract_author_screen_name.       *)
(***************************************************************************)
ParserIdKeys ==
  <<"id_str", "rest_id", "id", "tweetId", "tweet_id", "postId", "post_id",
    "statusId", "status_id", "replyId">>

\* _extract_tweet_id; .get raises AttributeError on a record that is no dict.
extract_tweet_id(tweet_data) ==
  IF ~Truthy(tweet_data) THEN Value(JNull)
  ELSE IF ~IsObj(tweet_data) THEN Raises
  ELSE Value(GetFirstTruthy(tweet_data, ParserIdKeys))

direct_fields == <<"username", "user_screen_name", "screen_name", "userName">>
\* The loop of lines 67-69: the first direct field that holds a str.
RECURSIVE FirstStr(_, _)
FirstStr(d, fields) ==
  IF fields = << >> THEN JNull
  ELSE IF IsStr(Get(d, Head(fields), JNull)) THEN Item(d, Head(fields))
  ELSE FirstStr(d, Tail(fields))

ParserRejected == {<<"undefined">>, <<"status">>, <<"i">>, <<"web">>}
\* _extract_author_screen_name; on a record that is no dict a statement of the
\* try block raises, and None is returned.
extract_author_screen_name(tweet_data) ==
  IF ~Truthy(tweet_data) \/ ~IsObj(tweet_data) THEN JNull
  ELSE IF IsObj(Get(tweet_data, "user", JNull)) /\ Has(Item(tweet_data, "user"), "screen_name")
  THEN Item(Item(tweet_data, "user"), "screen_name")
  ELSE IF IsObj(Get(tweet_data, "author", JNull))
  THEN GetFirstTruthy(Item(tweet_data, "author"), <<"screen_name", "username", "name">>)
  ELSE IF IsStr(FirstStr(tweet_data, direct_fields)) THEN FirstStr(tweet_data, direct_fields)
  ELSE IF /\ IsStr(Get(tweet_data, "replyUrl", JNull))
          /\ UrlUsername(Item(tweet_data, "replyUrl"), ParserRejected) # JNull
  THEN UrlUsername(Item(tweet_data, "replyUrl"), ParserRejected)
  ELSE IF IsStr(Get(tweet_data, "author", JNull)) THEN Item(tweet_data, "author")
  ELSE JNull

(***************************************************************************)
(* text_extractor.extract_tweet_text.  Its body runs inside try/except     *)
(* Exception: when a statement raises, None is returned.                   *)
(***************************************************************************)
TextIdKeys ==
  <<"id_str", "id", "tweetId", "tweet_id", "postId", "post_id", "statusId", "status_id",
    "replyId">>
TextRejected == {<<"undefined">>, <<"status">>}

\* Lines 55-84: the author of the record, None when no branch assigns it.
TextAuthor(tweet_data, user, author) ==
  IF Has(tweet_data, "user") /\ ~IsContainer(user) THEN Raises
  ELSE IF Has(tweet_data, "user") /\ In("screen_name", user)
  THEN (IF IsObj(user) THEN Value(Item(user, "screen_name")) ELSE Raises)
  ELSE IF IsObj(author) /\ Has(author, "screen_name") THEN Value(Item(author, "screen_name"))
  ELSE IF IsObj(author) /\ Has(author, "username") THEN Value(Item(author, "username"))
  ELSE IF IsObj(author) /\ Has(author, "name") THEN Value(Item(author, "name"))
  ELSE IF Has(tweet_data, "replyUrl")
  \* lines 66-74: what raises here is caught, and author stays None
  THEN Value(IF IsStr(Item(tweet_data, "replyUrl"))
             THEN UrlUsername(Item(tweet_data, "replyUrl"), TextRejected)
             ELSE JNull)
  ELSE IF IsStr(author) THEN Value(author)
  ELSE Value(GetFirstPresent(tweet_data, direct_fields))

\* The values e[field] of the elements e of entities that hold field.
RECURSIVE FieldValuesOf(_, _)
FieldValuesOf(items, field) ==
  IF items = << >> THEN << >>
  ELSE (IF In(field, Head(items)) THEN <<Item(Head(items), field)>> ELSE << >>)
       \o FieldValuesOf(Tail(items), field)
\* The loops of lines 128-130, 135-137, 142-144 and 202-204 over tweet_data['entities'][list_key].
FieldValues(entities, field) ==
  CASE IsArr(entities) ->
         IF \E i \in 1..Len(entities.items) :
              \/ ~IsContainer(entities.items[i])
              \/ In(field, entities.items[i]) /\ ~IsObj(entities.items[i])
         THEN Raises
         ELSE Value(FieldValuesOf(entities.items, field))
    \* the elements of a str are its characters, which hold no field
    [] IsStr(entities) -> Value(<< >>)
    \* the elements of a dict are its keys
    [] IsObj(entities) ->
         IF \E i \in 1..Len(entities.m) :
              \/ Len(entities.m[i][1]) = 2 /\ entities.m[i][1][1] = "int"
              \/ In(field, JStr(entities.m[i][1]))
         THEN Raises
         ELSE Value(<< >>)
    [] OTHER -> Raises
EntityValues(tweet_data, list_key, field) ==
  IF ~Has(tweet_data, "entities") THEN Value(<< >>)
  ELSE IF ~IsContainer(Item(tweet_data, "entities")) THEN Raises
  ELSE IF ~In(list_key, Item(tweet_data, "entities")) THEN Value(<< >>)
  ELSE IF ~IsObj(Item(tweet_data, "entities")) THEN Raises
  ELSE FieldValues(Item(Item(tweet_data, "entities"), list_key), field)

\* f"#{...}" and f"@{...}" of lines 137 and 144.
Prefixed(prefix, values) == JArr([i \in 1..Len(values) |-> JStr(<<prefix>> \o PyStr(values[i]))])

\* Lines 198-204.
Media(tweet_data) ==
  IF Has(tweet_data, "media") THEN Value(Item(tweet_data, "media"))
  ELSE IF EntityValues(tweet_data, "media", "media_url_https").exc THEN Raises
  ELSE Value(JArr(EntityValues(tweet_data, "media", "media_url_https").v))

\* Lines 207-218.
AuthorDetails(tweet_data, user, author) ==
  IF IsObj(author) THEN Value(author)
  ELSE IF ~Has(tweet_data, "user") THEN Value(EmptyObj)
  ELSE IF ~IsObj(user) THEN Raises
  ELSE Value(JObj(<< <<<<"followersCount">>, Get(user, "followers_count", JNull)>>,
                     <<<<"favouritesCount">>, Get(user, "favourites_count", JNull)>>,
                     <<<<"friendsCount">>, Get(user, "friends_count", JNull)>>,
                     <<<<"description">>, Get(user, "description", JNull)>> >>))

\* f"https://x.com/{author}/status/{tweet_id}".
StatusUrl(author, tweet_id) ==
  JStr(<<"https:", SLASH, SLASH, "x.com", SLASH>> \o PyStr(author)
       \o <<SLASH, "status", SLASH>> \o PyStr(tweet_id))

\* Lines 147-154.
is_reply(tweet_data) ==
  \/ Get(tweet_data, "in_reply_to_status_id", JNull) # JNull
  \/ Get(tweet_data, "in_reply_to_status_id_str", JNull) # JNull
  \/ Get(tweet_data, "isReply", JNull) = JBool(TRUE)
  \/ Get(tweet_data, "is_reply", JNull) = JBool(TRUE)
  \/ Get(tweet_data, "replyTo", JNull) # JNull
  \/ Get(tweet_data, "reply_to", JNull) # JNull

\* Lines 92-110 and 228-254: the result, for the values that the statements
\* that can raise have given.
TweetResult(tweet_data, tweet_id, author, text, urls, hashtags, mentions, media, author_details) ==
  JObj(<<
    <<<<"tweet_id">>, tweet_id>>,
    <<<<"author">>, IF Truthy(author_details) THEN author_details ELSE author>>,
    <<<<"text">>, text>>,
    <<<<"timestamp">>,
      GetFirstPresent(tweet_data, <<"created_at", "date", "timestamp", "time", "createdAt">>)>>,
    <<<<"urls">>, JArr(urls)>>,
    <<<<"hashtags">>, Prefixed(HASH, hashtags)>>,
    <<<<"mentions">>, Prefixed(AT, mentions)>>,
    <<<<"is_reply">>, JBool(is_reply(tweet_data))>>,
    <<<<"reply_to">>,
      GetFirstTruthy(tweet_data, <<"in_reply_to_screen_name", "replyToUser", "reply_to_user",
                                   "replyToScreenName", "reply_to_screen_name">>)>>,
    <<<<"reply_to_id">>,
      GetFirstTruthy(tweet_data, <<"in_reply_to_status_id", "in_reply_to_status_id_str",
                                   "replyToId", "reply_to_id", "replyToTweetId",
                                   "reply_to_tweet_id">>)>>,
    <<<<"postUrl">>, IF Has(tweet_data, "postUrl") THEN Item(tweet_data, "postUrl")
                     ELSE StatusUrl(author, tweet_id)>>,
    <<<<"postId">>, Or(Get(tweet_data, "postId", JNull), tweet_id)>>,
    <<<<"replyId">>, Or(Get(tweet_data, "replyId", JNull), tweet_id)>>,
    <<<<"replyUrl">>, IF Has(tweet_data, "replyUrl") THEN Item(tweet_data, "replyUrl")
                      ELSE StatusUrl(author, Or(Get(tweet_data, "replyId", JNull), tweet_id))>>,
    <<<<"replyText">>, text>>,
    <<<<"conversationId">>,
      Or(GetFirstTruthy(tweet_data, <<"conversationId", "conversation_id">>), tweet_id)>>,
    <<<<"media">>, media>>,
    <<<<"replyCount">>, Or(GetFirstTruthy(tweet_data, <<"replyCount", "reply_count">>), JNum(0))>>,
    <<<<"quoteCount">>, Or(GetFirstTruthy(tweet_data, <<"quoteCount", "quote_count">>), JNum(0))>>,
    <<<<"repostCount">>,
      Or(GetFirstTruthy(tweet_data, <<"repostCount", "repost_count", "retweet_count">>), JNum(0))>>,
    <<<<"favouriteCount">>,
      Or(GetFirstTruthy(tweet_data, <<"favouriteCount", "favorite_count", "favorite_count">>),
         JNum(0))>>,
    <<<<"viewsCount">>, Or(GetFirstTruthy(tweet_data, <<"viewsCount", "views_count">>), W("0"))>>
  >>)

\* Lines 54-256 for a record with the id tweet_id, after the statements that
\* can raise gave the outcomes a (author), u, h, m (entities), md and ad.
ExtractedTweet(tweet_data, tweet_id, a, u, h, m, md, ad) ==
  IF a.exc \/ u.exc \/ h.exc \/ m.exc \/ md.exc \/ ad.exc THEN JNull
  ELSE TweetResult(tweet_data, tweet_id, Or(a.v, W("unknown")),
                   Or(GetFirstPresent(tweet_data, <<"full_text", "text", "content", "tweet_text",
                                                    "replyText", "body", "message">>),
                      JStr(<< >>)),
                   u.v, h.v, m.v, md.v, ad.v)

\* Lines 36-52: the id, and None for a record without one.
ExtractWithId(tweet_data, tweet_id) ==
  IF ~Truthy(tweet_id) THEN JNull
  ELSE ExtractedTweet(tweet_data, tweet_id,
                      TextAuthor(tweet_data, Get(tweet_data, "user", JNull),
                                 Get(tweet_data, "author", JNull)),
                      EntityValues(tweet_data, "urls", "expanded_url"),
                      EntityValues(tweet_data, "hashtags", "text"),
                      EntityValues(tweet_data, "user_mentions", "screen_name"),
                      Media(tweet_data),
                      AuthorDetails(tweet_data, Get(tweet_data, "user", JNull),
                                    Get(tweet_data, "author", JNull)))

extract_tweet_text(tweet_data) ==
  IF ~Truthy(tweet_data) \/ ~IsObj(tweet_data) THEN JNull
  ELSE ExtractWithId(tweet_data, GetFirstTruthy(tweet_data, TextIdKeys))

\* The loop of lines 289-293 over the replies, after result.
RECURSIVE ExtractReplies(_, _)
ExtractReplies(replies, result) ==
  IF replies = << >> THEN result
  ELSE ExtractReplies(Tail(replies),
                      IF Truthy(extract_tweet_text(Head(replies)))
                      THEN Append(result, extract_tweet_text(Head(replies)))
                      ELSE result)

\* What `for reply in replies_data` iterates; on None and on a number it raises.
IterationOf(replies_data) ==
  CASE replies_data.t = "arr" -> Value(replies_data.items)
    [] replies_data.t = "str" -> Value([i \in 1..Len(replies_data.s) |-> W(replies_data.s[i])])
    [] replies_data.t = "obj" -> Value([i \in 1..Len(replies_data.m) |->
                                         JStr(replies_data.m[i][1])])
    [] OTHER -> Raises

\* extract_thread_text: its body runs inside try/except Exception, and [] is
\* returned when a statement raises.
extract_thread_text(tweet_data, replies_data) ==
  IF ~Truthy(tweet_data) \/ IterationOf(replies_data).exc THEN JArr(<< >>)
  ELSE JArr(ExtractReplies(IterationOf(replies_data).v,
                           IF Truthy(extract_tweet_text(tweet_data))
                           THEN <<extract_tweet_text(tweet_data)>>
                           ELSE << >>))

(***************************************************************************)
(* Scraper.extract_video_url.  Its body runs inside try/except Exception:  *)
(* when a statement raises, None is returned.                              *)
(***************************************************************************)
VidPath == <<SLASH, "vid", SLASH, "avc1", SLASH>>
MP4 == JStr(<<"video", SLASH, "mp4">>)

\* [v for v in variants if v.get(type_key) == 'video/mp4']: the elements of a
\* str or of a dict are strings, on which .get raises.
Mp4Variants(variants, type_key) ==
  CASE IsArr(variants) ->
         IF \E i \in 1..Len(variants.items) : ~IsObj(variants.items[i]) THEN Raises
         ELSE Value(SelectSeq(variants.items, LAMBDA v : Get(v, type_key, JNull) = MP4))
    [] variants.t \in {"str", "obj"} /\ ~Truthy(variants) -> Value(<< >>)
    [] OTHER -> Raises

\* list.sort(key=..., reverse=True)[0] for the keys of the list: the index of
\* the first element with the greatest key.  Keys that are all str, or all
\* list, are ordered by Python's order of strings and lists, which is left
\* undefined here.
FirstMax(keys) ==
  CHOOSE i \in 1..Len(keys) :
    /\ \A j \in 1..Len(keys) : NumVal(keys[j]) <= NumVal(keys[i])
    /\ \A j \in 1..(i - 1) : NumVal(keys[j]) < NumVal(keys[i])
SortedFirst(keys) ==
  CASE Len(keys) = 1 -> Value(1)
    [] Len(keys) > 1 /\ (\A i \in 1..Len(keys) : IsNumber(keys[i])) -> Value(FirstMax(keys))
    [] /\ Len(keys) > 1
       /\ \/ \E i \in 1..Len(keys) : keys[i].t \in {"null", "obj"}
          \/ \E i, j \in 1..Len(keys) : IsNumber(keys[i]) # IsNumber(keys[j])
          \/ \E i, j \in 1..Len(keys) : ~IsNumber(keys[i]) /\ keys[i].t # keys[j].t
       -> Raises

\* Lines 217-219: `'/vid/avc1/' in url` and url.split('/vid/avc1/') for a
\* truthy url.
ResolutionRaises(url) ==
  \/ ~IsContainer(url)
  \/ IsArr(url) /\ \E i \in 1..Len(url.items) : url.items[i] = JStr(VidPath)
  \/ IsObj(url) /\ VidPath \in Keys(url)

\* Lines 204-221 for the MP4 variants of one media, on [url, bitrate, exc]:
\* best_video_url, best_bitrate, and whether a statement raised.
BestOf(best, mp4_variants, first) ==
  IF first.exc \/ ~IsNumber(Get(mp4_variants[first.v], "bitrate", JNum(0)))
  THEN [best EXCEPT !.exc = TRUE]
  ELSE IF /\ NumVal(Get(mp4_variants[first.v], "bitrate", JNum(0))) > best.bitrate
          /\ Truthy(Get(mp4_variants[first.v], "url", JNull))
  THEN [url |-> Item(mp4_variants[first.v], "url"),
        bitrate |-> NumVal(Item(mp4_variants[first.v], "bitrate")),
        exc |-> ResolutionRaises(Item(mp4_variants[first.v], "url"))]
  ELSE best
BestOfVariants(best, mp4) ==
  IF mp4.exc THEN [best EXCEPT !.exc = TRUE]
  ELSE IF mp4.v = << >> THEN best
  ELSE BestOf(best, mp4.v,
              SortedFirst([i \in 1..Len(mp4.v) |-> Get(mp4.v[i], "bitrate", JNum(0))]))

\* Lines 197-198 for one element of mediaDetails.
BestOfMedia(best, media) ==
  IF ~IsObj(media) THEN [best EXCEPT !.exc = TRUE]
  ELSE IF Get(media, "type", JNull) # W("video") \/ ~Has(media, "video_info") THEN best
  ELSE IF ~IsContainer(Item(media, "video_info")) THEN [best EXCEPT !.exc = TRUE]
  ELSE IF ~In("variants", Item(media, "video_info")) THEN best
  ELSE IF ~IsObj(Item(media, "video_info")) THEN [best EXCEPT !.exc = TRUE]
  ELSE BestOfVariants(best, Mp4Variants(Item(Item(media, "video_info"), "variants"),
                                        "content_type"))
RECURSIVE BestOfMediaList(_, _)
BestOfMediaList(best, medias) ==
  IF medias = << >> \/ best.exc THEN best
  ELSE BestOfMediaList(BestOfMedia(best, Head(medias)), Tail(medias))

\* Lines 195-221: the loop over tweet_data['mediaDetails'].
BestOfMediaDetails(tweet_data) ==
  IF ~IsContainer(tweet_data) THEN [url |-> JNull, bitrate |-> 0, exc |-> TRUE]
  ELSE IF ~In("mediaDetails", tweet_data) THEN [url |-> JNull, bitrate |-> 0, exc |-> FALSE]
  ELSE IF ~IsObj(tweet_data) THEN [url |-> JNull, bitrate |-> 0, exc |-> TRUE]
  ELSE CASE IsArr(Item(tweet_data, "mediaDetails")) ->
              BestOfMediaList([url |-> JNull, bitrate |-> 0, exc |-> FALSE],
                              Item(tweet_data, "mediaDetails").items)
         [] /\ Item(tweet_data, "mediaDetails").t \in {"str", "obj"}
            /\ ~Truthy(Item(tweet_data, "mediaDetails")) ->
              [url |-> JNull, bitrate |-> 0, exc |-> FALSE]
         [] OTHER -> [url |-> JNull, bitrate |-> 0, exc |-> TRUE]

\* get_resolution_priority (lines 237-250); src is a dict, a list or a str.
ResolutionTokens == <<"3840x2160", "1920x1080", "1280x720", "640x360", "480x270">>
\* Every known token ranked alike.
FlatPriority(token) == 1000
TokenPriority(token) ==
  CASE token = "3840x2160" -> 4000
    [] token = "1920x1080" -> 3000
    [] token = "1280x720" -> 2000
    [] token = "640x360" -> 1000
    [] token = "480x270" -> 500
get_resolution_priority(variant) ==
  IF \E t \in 1..Len(ResolutionTokens) : In(ResolutionTokens[t], Get(variant, "src", JStr(<< >>)))
  THEN JNum(TokenPriority(ResolutionTokens[
              CHOOSE t \in 1..Len(ResolutionTokens) :
                /\ In(ResolutionTokens[t], Get(variant, "src", JStr(<< >>)))
                /\ \A u \in 1..(t - 1) :
                     ~In(ResolutionTokens[u], Get(variant, "src", JStr(<< >>)))]))
  ELSE Get(variant, "bitrate", JNum(0))

\* Lines 266-276: the first variant of any type, or None.
FirstVariant(variants) ==
  IF Truthy(variants) THEN Get(variants.items[1], "src", JNull) ELSE JNull

\* Lines 252-264 for the MP4 variant `first` that the sort puts first.
SelectedVariant(variants, mp4_variants, first) ==
  IF first.exc THEN JNull
  ELSE IF Truthy(Get(mp4_variants[first.v], "src", JNull))
  THEN (IF ResolutionRaises(Item(mp4_variants[first.v], "src")) THEN JNull
        ELSE Item(mp4_variants[first.v], "src"))
  ELSE FirstVariant(variants)

\* Lines 228-270 for the variants of tweet_data['video'].
VideoVariants(variants, mp4) ==
  IF mp4.exc THEN JNull
  ELSE IF mp4.v = << >> THEN FirstVariant(variants)
  ELSE IF \E i \in 1..Len(mp4.v) : ~IsContainer(Get(mp4.v[i], "src", JStr(<< >>))) THEN JNull
  ELSE SelectedVariant(variants, mp4.v,
                       SortedFirst([i \in 1..Len(mp4.v) |-> get_resolution_priority(mp4.v[i])]))

\* Lines 228-273: the fallback to tweet_data['video'], for a dict.
VideoFallback(tweet_data, video) ==
  IF ~Has(tweet_data, "video") \/ ~Truthy(video) THEN JNull
  ELSE IF ~IsContainer(video) THEN JNull
  ELSE IF ~In("variants", video) THEN JNull
  ELSE IF ~IsObj(video) THEN JNull
  ELSE VideoVariants(Item(video, "variants"), Mp4Variants(Item(video, "variants"), "type"))

\* Lines 223-228, for the outcome of the loop over mediaDetails; a record
\* that is no dict holds no video, or raises at tweet_data['video'].
AfterMediaDetails(tweet_data, best) ==
  IF best.exc \/ ~IsObj(tweet_data) THEN JNull
  ELSE IF Truthy(best.url) /\ best.bitrate > 0 THEN best.url
  ELSE VideoFallback(tweet_data, Get(tweet_data, "video", JNull))

extract_video_url(tweet_data) == AfterMediaDetails(tweet_data, BestOfMediaDetails(tweet_data))

(***************************************************************************)
(* thread_parser.parse_tweet_and_replies_data.  No statement of it is      *)
(* inside a try block: what raises leaves the function.                    *)
(***************************************************************************)
\* Lines 141-146 and 180-186: the videos of a tweet.
Videos(tweet_id, video_url) ==
  IF Truthy(video_url)
  THEN JArr(<<JObj(<< <<<<"tweet_id">>, tweet_id>>, <<<<"video_url">>, video_url>> >>)>>)
  ELSE JArr(<< >>)

\* Lines 166-178 for a reply with the id reply_id.
ReplyStruct(reply_content, reply_id, reply_author_screen_name) ==
  JObj(<< <<<<"reply_id">>, reply_id>>,
          <<<<"reply_author_screen_name">>,
            IF Truthy(reply_author_screen_name) THEN reply_author_screen_name
            ELSE W("unknown_reply_author")>>,
          <<<<"reply_text_content">>, reply_content>>,
          <<<<"reply_videos">>, Videos(reply_id, extract_video_url(reply_content))>> >>)

\* A pass of the loop that ends the assembly at a reply without an id.
AbortWithoutId(reply_content, done) ==
  IF ~Truthy(reply_content) THEN Value(done)
  ELSE IF extract_tweet_id(reply_content).exc \/ ~Truthy(extract_tweet_id(reply_content).v)
  THEN Raises
  ELSE Value(Append(done, ReplyStruct(reply_content, extract_tweet_id(reply_content).v,
                                      extract_author_screen_name(reply_content))))
\* Lines 154-187: one pass of the loop of line 153, after the reply structs
\* done.
ParseReply(reply_content, done) ==
  IF ~Truthy(reply_content) THEN Value(done)
  ELSE IF extract_tweet_id(reply_content).exc THEN Raises
  ELSE IF ~Truthy(extract_tweet_id(reply_content).v) THEN Value(done)
  ELSE Value(Append(done, ReplyStruct(reply_content, extract_tweet_id(reply_content).v,
                                      extract_author_screen_name(reply_content))))

\* The loop of line 153 over the replies: the reply structs, or exc.
RECURSIVE ParseReplies(_, _)
ParseReplies(replies, done) ==
  IF replies = << >> THEN Value(done)
  ELSE IF ParseReply(Head(replies), done).exc THEN Raises
  ELSE ParseReplies(Tail(replies), ParseReply(Head(replies), done).v)

\* What the loop of line 153 iterates: None is an empty list (lines 149-151),
\* the elements of a str are its characters and those of a dict its keys.
RepliesOf(replies_data) ==
  CASE replies_data.t = "null" -> Value(<< >>)
    [] replies_data.t = "arr" -> Value(replies_data.items)
    [] replies_data.t = "str" -> Value([i \in 1..Len(replies_data.s) |-> W(replies_data.s[i])])
    [] replies_data.t = "obj" -> Value([i \in 1..Len(replies_data.m) |->
                                         JStr(replies_data.m[i][1])])
    [] OTHER -> Raises

\* Lines 132-193 for a main tweet with an id, given the outcome of the loop
\* over the replies.
ParsedThread(tweet_data, main_author_screen_name, main_tweet_id, replies) ==
  IF replies.exc THEN Raises
  ELSE Value(JObj(<< <<<<"user_screen_name">>, main_author_screen_name>>,
                     <<<<"thread_id">>, main_tweet_id>>,
                     <<<<"thread_text_content">>, tweet_data>>,
                     <<<<"thread_videos">>, Videos(main_tweet_id, extract_video_url(tweet_data))>>,
                     <<<<"replies">>, JArr(replies.v)>> >>))

\* Lines 119-193 past the checks of the author and of the id.
AssembleThread(tweet_data, replies_data, main_author_screen_name, main_tweet_id) ==
  ParsedThread(tweet_data,
               IF Truthy(main_author_screen_name) THEN main_author_screen_name
               ELSE Or(Get(Get(tweet_data, "user", EmptyObj), "id_str", JNull),
                       W("unknown_user")),
               main_tweet_id,
               IF RepliesOf(replies_data).exc THEN Raises
               ELSE ParseReplies(RepliesOf(replies_data).v, << >>))

ParseWithoutIdCheck(tweet_data, replies_data, main_author_screen_name, main_tweet_id) ==
  IF ~Truthy(main_author_screen_name) /\ ~IsObj(Get(tweet_data, "user", EmptyObj))
  THEN Raises
  ELSE AssembleThread(tweet_data, replies_data, main_author_screen_name, main_tweet_id)
\* Lines 119-193, for the author and the id that lines 116-117 gave.
ParseMain(tweet_data, replies_data, main_author_screen_name, main_tweet_id) ==
  IF ~Truthy(main_author_screen_name) /\ ~IsObj(Get(tweet_data, "user", EmptyObj))
  THEN Raises          \* line 123: .get on a user that is no dict
  ELSE IF ~Truthy(main_tweet_id) THEN Value(JNull)
  ELSE AssembleThread(tweet_data, replies_data, main_author_screen_name, main_tweet_id)

parse_tweet_and_replies_data(tweet_data, replies_data) ==
  IF ~Truthy(tweet_data) THEN Value(JNull)
  ELSE IF extract_tweet_id(tweet_data).exc THEN Raises
  ELSE ParseMain(tweet_data, replies_data, extract_author_screen_name(tweet_data),
                 extract_tweet_id(tweet_data).v)

(***************************************************************************)
(* video_downloader.save_parsed_thread_data.  The outcome is               *)
(* [files, saved_files, exc]: the paths written, the list returned, and    *)
(* whether a statement raised.  disk says what the file system and the     *)
(* network allow: [dirs, writes, downloads].                               *)
(***************************************************************************)
DEFAULT_OUTPUT_DIR == <<"output">>

\* os.path.join(a, b) for two str.
PathJoin(a, b) ==
  IF b # << >> /\ b[1] = SLASH THEN b
  ELSE IF a = << >> \/ a[Len(a)] = SLASH THEN a \o b
  ELSE a \o <<SLASH>> \o b

\* _save_json_content: what raises is logged, and the caller appends the path.
SaveJson(saved, disk, file_path) ==
  [files |-> IF disk.writes THEN saved.files \union {file_path} ELSE saved.files,
   saved_files |-> Append(saved.saved_files, file_path),
   exc |-> FALSE]

\* download_video_content: None when the download fails or a statement raises.
Download(saved, disk, video_id, output_dir) ==
  IF disk.downloads
  THEN [files |-> saved.files \union {PathJoin(output_dir, PyStr(video_id) \o <<".mp4">>)},
        saved_files |-> Append(saved.saved_files,
                               PathJoin(output_dir, PyStr(video_id) \o <<".mp4">>)),
        exc |-> FALSE]
  ELSE saved

\* The loops of lines 201-208 and 231-238 over the videos of a tweet;
\* video_id is the name of the file, None to take it from the video.
RECURSIVE DownloadVideos(_, _, _, _, _, _)
DownloadVideos(saved, disk, videos, video_id, default_id, videos_path) ==
  IF videos = << >> THEN saved
  ELSE DownloadVideos(
         IF /\ Truthy(Get(Head(videos), "video_url", JNull))
            /\ Truthy(IF video_id = JNull THEN Get(Head(videos), "tweet_id", default_id)
                      ELSE video_id)
         THEN Download(saved, disk,
                       IF video_id = JNull THEN Get(Head(videos), "tweet_id", default_id)
                       ELSE video_id,
                       videos_path)
         ELSE saved,
         disk, Tail(videos), video_id, default_id, videos_path)

\* Lines 218-238 for one reply with a str id, in current_reply_path.
SaveReply(saved, disk, reply_info, current_reply_path) ==
  IF ~disk.dirs THEN [saved EXCEPT !.exc = TRUE]      \* os.makedirs raises
  ELSE DownloadVideos(
         IF Truthy(Get(reply_info, "reply_text_content", JNull))
         THEN SaveJson(saved, disk, PathJoin(current_reply_path, <<"reply_text.json">>))
         ELSE saved,
         disk, Get(reply_info, "reply_videos", JArr(<< >>)).items, JNull,
         Item(reply_info, "reply_id"), PathJoin(current_reply_path, <<"videos">>))

\* The loop of line 212 over the replies.
RECURSIVE SaveReplies(_, _, _, _)
SaveReplies(saved, disk, replies, replies_base_path) ==
  IF replies = << >> \/ saved.exc THEN saved
  ELSE IF ~Truthy(Get(Head(replies), "reply_id", JNull))
  THEN SaveReplies(saved, disk, Tail(replies), replies_base_path)
  ELSE IF ~IsStr(Item(Head(replies), "reply_id"))
  THEN [saved EXCEPT !.exc = TRUE]                    \* os.path.join raises
  ELSE SaveReplies(SaveReply(saved, disk, Head(replies),
                             PathJoin(replies_base_path, Item(Head(replies), "reply_id").s)),
                   disk, Tail(replies), replies_base_path)

\* Lines 190-240, in the directory thread_path.
SaveThreadFiles(parsed_data, disk, thread_id, thread_path) ==
  SaveReplies(
    DownloadVideos(
      IF Truthy(Get(parsed_data, "thread_text_content", JNull))
      THEN SaveJson([files |-> {}, saved_files |-> << >>, exc |-> FALSE], disk,
                    PathJoin(thread_path, <<"thread_text.json">>))
      ELSE [files |-> {}, saved_files |-> << >>, exc |-> FALSE],
      disk, Get(parsed_data, "thread_videos", JArr(<< >>)).items, thread_id, JNull,
      PathJoin(thread_path, <<"videos">>)),
    disk, Get(parsed_data, "replies", JArr(<< >>)).items, PathJoin(thread_path, <<"replies">>))

\* Lines 183-188.
SaveUnder(parsed_data, base_output_dir, disk, user_screen_name, thread_id) ==
  IF ~IsStr(user_screen_name) \/ ~IsStr(thread_id) \/ ~disk.dirs
  THEN [files |-> {}, saved_files |-> << >>, exc |-> TRUE]
  ELSE SaveThreadFiles(parsed_data, disk, thread_id,
                  PathJoin(PathJoin(base_output_dir, user_screen_name.s), thread_id.s))

save_parsed_thread_data(parsed_data, base_output_dir, disk) ==
  IF ~Truthy(parsed_data) THEN [files |-> {}, saved_files |-> << >>, exc |-> FALSE]
  ELSE SaveUnder(parsed_data, base_output_dir, disk,
                 Get(parsed_data, "user_screen_name", W("unknown_user")),
                 Get(parsed_data, "thread_id", W("unknown_thread")))

(***************************************************************************)
(* The state of the program.                                               *)
(***************************************************************************)
VARIABLES
  \* ScriptGenerator.generate_script
  model,              \* self.model
  style,
  target_duration,
  pc,                 \* "start", "request" (inside the fallback loop), "returned"
  attempt,            \* the position in unique_fallback_models of the next request
  requested,          \* the models requested so far in this call, in order
  response,           \* the response of the last successful request
  last_error,
  generated_content,  \* the stripped text of the response
  result,             \* how the call ended: [kind, value]
  reply,              \* the text the model answers with, and the value it is a dump of
  calls,              \* the number of generate_script calls made
  \* ScriptGenerator.validate_and_enhance_timing
  script_data,        \* the parsed script, mutated in place
  timing_pc,          \* "parsed", "validated"
  parsed_script,      \* the script as json.loads gave it, before the validation
  \* the id extraction of thread_parser and text_extractor
  raw_record,         \* the scraped record
  found_id,           \* the outcome of _extract_tweet_id
  extracted,          \* what extract_tweet_text returned
  extract_done,       \* the extractions that have run: "parser", "text"
  \* main.process_thread_and_replies
  main_pc,            \* "cli", "start", "fetched", "parsed", "saved", "exited"
  main_tweet_data,
  replies_list_data,
  parsed_data,
  files,              \* the paths of the files written
  saved_media_files,
  exit_code,          \* the exit code of the process, -1 while it runs
  disk,               \* what the file system and the network allow
  tweet_url,          \* the argument of main
  effective_api_token, \* --apify-token or config.APIFY_API_TOKEN
  script_step,        \* how generate_tiktok_script_automatically ended
  \* the two assemblies of a thread: thread_parser and text_extractor
  thread_tweet,       \* the record of the root tweet
  thread_replies,     \* the list of the records of the replies
  tree,               \* the outcome of parse_tweet_and_replies_data
  thread_text,        \* what extract_thread_text returned
  thread_done,        \* the assemblies that have run: "parse", "text"
  \* Scraper.extract_video_url
  video_record,       \* the record of a tweet
  video_url,          \* what extract_video_url returned
  video_pc,           \* "start", "returned"
  \* batch_script_generator: main and BatchScriptGenerator
  output_dirs,        \* what each directory under the output directory holds
  force_regenerate,
  max_concurrent,
  batch_pc,           \* "start", "gathering", "reported", "exited"
  thread_dirs,        \* what find_thread_directories returned
  task_pc,            \* per directory: "none", "created", "waiting", "holding",
                      \* "generating", "done"
  semaphore,          \* [value, waiters]
  processed_count,
  success_count,
  error_count,
  task_result,        \* per directory, what process_single_thread returned
  script_files,       \* the directories that hold a tiktok_script.json
  stats,              \* what process_all_threads returned
  batch_exit_code,    \* the exit code of the process, -1 while it runs
  requests,           \* per directory, the requests for a script made in this run
  script_writes       \* per directory, the writes of tiktok_script.json in this run

gs_vars == <<model, style, target_duration, pc, attempt, requested, response, last_error,
             generated_content, result, reply, calls>>
timing_vars == <<script_data, timing_pc, parsed_script>>
extract_vars == <<raw_record, found_id, extracted, extract_done>>
main_vars == <<main_pc, main_tweet_data, replies_list_data, parsed_data, files,
               saved_media_files, exit_code, disk, tweet_url, effective_api_token, script_step>>
thread_vars == <<thread_tweet, thread_replies, tree, thread_text, thread_done>>
video_vars == <<video_record, video_url, video_pc>>
batch_vars == <<output_dirs, force_regenerate, max_concurrent, batch_pc, thread_dirs, task_pc,
                semaphore, processed_count, success_count, error_count, task_result,
                script_files, stats, batch_exit_code, requests, script_writes>>
vars == <<gs_vars, timing_vars, extract_vars, main_vars, thread_vars, video_vars, batch_vars>>

\* A component that takes no part in a run.
NoCall ==
  /\ model = "none" /\ style = "none" /\ target_duration = 0 /\ pc = "idle" /\ attempt = 0
  /\ requested = << >> /\ response = [given |-> FALSE, content |-> << >>]
  /\ last_error = << >> /\ generated_content = << >>
  /\ result = [kind |-> "running", value |-> JNull]
  /\ reply = [text |-> << >>, dumped |-> [is |-> FALSE, v |-> JNull]] /\ calls = 0
NoTiming == script_data = JNull /\ timing_pc = "idle" /\ parsed_script = JNull
NoExtract ==
  raw_record = JNull /\ found_id = Value(JNull) /\ extracted = JNull /\ extract_done = {}
NoMain ==
  /\ main_pc = "idle" /\ main_tweet_data = JNull /\ replies_list_data = JArr(<< >>)
  /\ parsed_data = JNull /\ files = {} /\ saved_media_files = << >> /\ exit_code = -1
  /\ disk = [dirs |-> TRUE, writes |-> TRUE, downloads |-> TRUE]
  /\ tweet_url = << >> /\ effective_api_token = JNull /\ script_step = "none"
NoThread ==
  /\ thread_tweet = JNull /\ thread_replies = JArr(<< >>) /\ tree = Value(JNull)
  /\ thread_text = JArr(<< >>) /\ thread_done = {}
NoVideo == video_record = JNull /\ video_url = JNull /\ video_pc = "idle"
NoBatch ==
  /\ output_dirs = << >> /\ force_regenerate = FALSE /\ max_concurrent = 0 /\ batch_pc = "idle"
  /\ thread_dirs = << >> /\ task_pc = << >> /\ semaphore = [value |-> 0, waiters |-> << >>]
  /\ processed_count = 0 /\ success_count = 0 /\ error_count = 0 /\ task_result = << >>
  /\ script_files = {} /\ stats = [processed |-> 0, success |-> 0, errors |-> 0]
  /\ batch_exit_code = -1 /\ requests = << >> /\ script_writes = << >>

(***************************************************************************)
(* generate_script: the fallback loop, lines 885-949.                      *)
(***************************************************************************)
DEFAULT_MODEL == "deepseek/deepseek-r1-0528:free"
AVAILABLE_MODELS ==
  {"deepseek/deepseek-r1-0528:free", "anthropic/claude-3.5-sonnet", "anthropic/claude-3-haiku",
   "openai/gpt-4o", "openai/gpt-4o-mini", "meta-llama/llama-3.1-8b-instruct",
   "google/gemini-pro-1.5", "qwen/qwen-2.5-72b-instruct:free",
   "microsoft/phi-3-medium-4k-instruct:free"}
SCRIPT_STYLES == {"engaging", "educational", "viral", "professional"}
DEFAULT_TARGET_DURATION == 60

fallback_models(primary) ==
  <<primary, "qwen/qwen-2.5-72b-instruct:free", "microsoft/phi-3-medium-4k-instruct:free",
    "deepseek/deepseek-r1-0528:free">>

\* Lines 893-899: duplicates removed, the first occurrence kept.
RECURSIVE RemoveDuplicates(_, _)
RemoveDuplicates(models, seen) ==
  IF models = << >> THEN << >>
  ELSE IF Head(models) \in seen THEN RemoveDuplicates(Tail(models), seen)
       ELSE <<Head(models)>> \o RemoveDuplicates(Tail(models), seen \cup {Head(models)})

KeepDuplicates(primary) == fallback_models(primary)
unique_fallback_models(primary) == RemoveDuplicates(fallback_models(primary), {})

\* Error messages are strings; `x in error_msg` is a search for the atoms of x.
Contains(msg, part) ==
  \E i \in 1..(Len(msg) - Len(part) + 1) : SubSeq(msg, i, i + Len(part) - 1) = part
\* str.lower() on the atoms of the modelled messages.
LowerAtom(a) ==
  CASE a \in {"Rate", "RATE"} -> "rate"
    [] a \in {"Limit", "LIMIT"} -> "limit"
    [] OTHER -> a
Lower(msg) == [i \in 1..Len(msg) |-> LowerAtom(msg[i])]

ErrorMessages ==
  {<<"502", SP, "Bad", SP, "Gateway">>,
   <<"Provider", SP, "returned", SP, "error">>,
   <<"Rate", SP, "limit", SP, "exceeded">>,
   <<"Connection", SP, "timed", SP, "out">>,
   <<"401", SP, "Unauthorized">>}
NoError == << >>

\* A loop that gives up on an error that is neither a provider fault nor a
\* rate limit, whichever candidate raised it.
RaiseUnlessProviderFault(error_msg, k, n) ==
  IF \/ Contains(error_msg, <<"502">>)
     \/ Contains(error_msg, <<"Bad", SP, "Gateway">>)
     \/ Contains(error_msg, <<"Provider", SP, "returned", SP, "error">>)
  THEN "continue"
  ELSE IF Contains(Lower(error_msg), <<"rate", SP, "limit">>) THEN "continue"
       ELSE "raise"
\* Lines 929-941: what the except clause of the loop does with a failure of
\* candidate number k (from 1) of n.
OnFailure(error_msg, k, n) ==
  IF \/ Contains(error_msg, <<"502">>)
     \/ Contains(error_msg, <<"Bad", SP, "Gateway">>)
     \/ Contains(error_msg, <<"Provider", SP, "returned", SP, "error">>)
  THEN "continue"
  ELSE IF Contains(Lower(error_msg), <<"rate", SP, "limit">>) THEN "continue"
       ELSE IF k - 1 < n - 1 THEN "continue"
            ELSE "raise"

\* Lines 920-922: a successful request leaves the loop.
KeepTrying == "continue"
OnSuccess == "break"

\* How a call ends.  Lines 1036-1038: any exception raised in generate_script
\* is logged and the call returns None.
Running == [kind |-> "running", value |-> JNull]
Returned(v) == [kind |-> "return", value |-> v]
Raised(e) == [kind |-> "raise", value |-> JStr(e)]
Propagate(e) == Raised(e)
OuterExcept(e) == Returned(JNull)

\* Lines 902 and 909: response is None until a request succeeds.
NoResponse == [given |-> FALSE, content |-> << >>]
Response(content) == [given |-> TRUE, content |-> content]

\* str.strip(): leading and trailing white space removed.
RECURSIVE RStrip(_)
RStrip(s) == IF s # << >> /\ IsSpace(s[Len(s)]) THEN RStrip(SubSeq(s, 1, Len(s) - 1)) ELSE s
LStrip(s) == SubSeq(s, SkipWs(s, 1), Len(s))
Strip(s) == LStrip(RStrip(s))

\* Lines 943-1034: the loop is over with this response and this last error.
AfterLoop(resp, err) ==
  IF ~resp.given
  THEN /\ result' = OuterExcept(err)
       /\ UNCHANGED generated_content
  ELSE /\ generated_content' = Strip(resp.content)
       /\ result' = Returned(NormalizeResponse(Strip(resp.content), style, target_duration))

\* Lines 857-859: the style is checked before anything is requested.
Begin ==
  /\ pc = "start"
  /\ IF style \notin SCRIPT_STYLES
     THEN pc' = "returned" /\ result' = OuterExcept(<<"Invalid", SP, "style">>)
     ELSE pc' = "request" /\ UNCHANGED result
  /\ UNCHANGED <<model, style, target_duration, attempt, requested, response, last_error,
                 generated_content, reply, calls>>
  /\ UNCHANGED <<timing_vars, extract_vars, main_vars, thread_vars, video_vars, batch_vars>>

\* Lines 904-922 and 943-1034: candidate number attempt answers with content.
Respond(content) ==
  /\ pc = "request"
  /\ requested' = Append(requested, unique_fallback_models(model)[attempt])
  /\ response' = Response(content)
  /\ IF OnSuccess = "break" \/ attempt = Len(unique_fallback_models(model))
     THEN /\ AfterLoop(Response(content), last_error)
          /\ pc' = "returned"
          /\ UNCHANGED attempt
     ELSE /\ attempt' = attempt + 1
          /\ UNCHANGED <<generated_content, result, pc>>
  /\ UNCHANGED <<model, style, target_duration, last_error, reply, calls>>
  /\ UNCHANGED <<timing_vars, extract_vars, main_vars, thread_vars, video_vars, batch_vars>>

\* Lines 924-949: the request to candidate number attempt raises e.
Fail(e, decision) ==
  /\ pc = "request"
  /\ requested' = Append(requested, unique_fallback_models(model)[attempt])
  /\ last_error' = e
  /\ IF decision = "raise"
     THEN pc' = "returned" /\ result' = OuterExcept(e) /\ UNCHANGED <<attempt, generated_content>>
     ELSE IF attempt < Len(unique_fallback_models(model))
     THEN attempt' = attempt + 1 /\ UNCHANGED <<pc, result, generated_content>>
     ELSE pc' = "returned" /\ AfterLoop(response, e) /\ UNCHANGED attempt
  /\ UNCHANGED <<model, style, target_duration, response, reply, calls>>
  /\ UNCHANGED <<timing_vars, extract_vars, main_vars, thread_vars, video_vars, batch_vars>>

RequestFails ==
  \E e \in ErrorMessages : Fail(e, OnFailure(e, attempt, Len(unique_fallback_models(model))))

\* The answer of a candidate in the fallback runs: a script that names it.
Section(text, seconds) ==
  JObj(<< <<<<"text">>, JStr(text)>>, <<<<"duration_seconds">>, JNum(seconds)>> >>)
ReplyOf(m) ==
  json_dumps(JObj(<< <<<<"hook">>, Section(<<m>>, 15)>>, <<<<"intro">>, Section(<<"b">>, 15)>>,
                     <<<<"explainer">>, Section(<<"c">>, 30)>>,
                     <<<<"metadata">>, JObj(<< <<<<"total_duration">>, JNum(60)>> >>)>> >>))

RequestSucceeds == Respond(ReplyOf(unique_fallback_models(model)[attempt]))

NotADump == [is |-> FALSE, v |-> JNull]
DumpOf(v) == [text |-> json_dumps(v), dumped |-> [is |-> TRUE, v |-> v]]
RawText(text) == [text |-> text, dumped |-> NotADump]

StylesTried == {"engaging", "viral", "funny"}

InitCall ==
  /\ pc = "start"
  /\ attempt = 1
  /\ requested = << >>
  /\ response = NoResponse
  /\ last_error = NoError
  /\ generated_content = << >>
  /\ result = Running
  /\ calls = 1

InitFallback ==
  /\ model \in AVAILABLE_MODELS
  /\ style \in StylesTried
  /\ target_duration = DEFAULT_TARGET_DURATION
  /\ reply = RawText(<< >>)
  /\ InitCall
  /\ NoTiming /\ NoExtract /\ NoMain /\ NoThread /\ NoVideo /\ NoBatch

NextFallback == Begin \/ RequestSucceeds \/ RequestFails
SpecFallback == InitFallback /\ [][NextFallback]_vars

(***************************************************************************)
(* Normalisation runs: the primary model answers with a text, and the      *)
(* caller may hand the dump of the returned value to a further call.       *)
(***************************************************************************)
MaxCalls == 3

Cue(timestamp, duration, tweet_id) ==
  JObj(<< <<<<"timestamp">>, JNum(timestamp)>>, <<<<"duration">>, JNum(duration)>>,
          <<<<"type">>, W("tweet_display")>>, <<<<"tweet_id">>, W(tweet_id)>> >>)
SectionWithCues(text, seconds, cues) ==
  JObj(<< <<<<"text">>, JStr(text)>>, <<<<"duration_seconds">>, JNum(seconds)>>,
          <<<<"visual_cues">>, JArr(cues)>> >>)
Script(hook, intro, explainer, total_duration) ==
  JObj(<< <<<<"hook">>, hook>>, <<<<"intro">>, intro>>, <<<<"explainer">>, explainer>>,
          <<<<"metadata">>, JObj(<< <<<<"total_duration">>, JNum(total_duration)>>,
                                    <<<<"style">>, W("engaging")>> >>)>> >>)

TextsTried == {<<"a">>, <<DQ, "q", DQ, SP, BS, NL, LB, COMMA, RB, RS>>}
HookCuesTried ==
  {<< >>, <<Cue(5, 3, "t1")>>, <<Cue(20, 3, "t1")>>, <<Cue(14, 40, "t1"), Cue(0, 0, "t2")>>}
ExplainerCuesTried == {<< >>, <<Cue(70, 3, "t1")>>}
StaleTimeline == JObj(<< <<<<"timeline_events">>, JArr(<<JNum(1)>>)>>, <<<<"pace">>, W("fast")>> >>)

ScriptsTried ==
  {Script(SectionWithCues(t, d, h), Section(<<"b">>, 15), SectionWithCues(<<"c">>, 30, e), 60) :
     t \in TextsTried, d \in {10, 15}, h \in HookCuesTried, e \in ExplainerCuesTried}
  \cup {Script(Section(<<"a">>, 15), Section(<<"b">>, 15), Section(<<"c">>, 30), 30)}
  \cup {Put(Script(SectionWithCues(<<"a">>, 15, h), Section(<<"b">>, 15), Section(<<"c">>, 30), 60),
            "visual_timeline", StaleTimeline) : h \in HookCuesTried}

OddValuesTried ==
  {EmptyObj, JArr(<< >>), JArr(<<JNum(1)>>), JNum(5), JNum(0), JNull, JBool(TRUE), W("x"),
   JObj(<< <<<<"hook">>, W("x")>> >>),
   JObj(<< <<<<"metadata">>, JNum(5)>> >>),
   JObj(<< <<<<"hook">>, Section(<<"a">>, 15)>> >>),
   Script(Section(<<"a">>, 0), Section(<<"b">>, 15), Section(<<"c">>, 30), 60),
   Script(SectionWithCues(<<"a">>, 15, <<JObj(<< <<<<"duration">>, JNum(3)>> >>)>>),
          Section(<<"b">>, 15), Section(<<"c">>, 30), 60),
   Script(SectionWithCues(<<"a">>, 15, <<JNum(1)>>), Section(<<"b">>, 15), Section(<<"c">>, 30), 60),
   Script(W("x"), Section(<<"b">>, 15), Section(<<"c">>, 30), 60)}

PlainScript == Script(Section(<<"a">>, 15), Section(<<"b">>, 15), Section(<<"c">>, 30), 60)
TrailingComma(text) == SubSeq(text, 1, Len(text) - 1) \o <<COMMA, NL, RB>>
RawTextsTried ==
  {<< >>, <<SP, NL>>, <<"Here is the script">>, <<LB>>, <<RB, SP, LB>>,
   <<"Here is the script", SP, LB, "a", RB, NL>>,
   <<"Here is the script", NL, FENCE, "json", NL>> \o json_dumps(PlainScript) \o <<NL, FENCE>>,
   json_dumps(PlainScript) \o <<NL, "Hope this helps!">>,
   <<SP, NL>> \o json_dumps(PlainScript) \o <<NL>>,
   TrailingComma(json_dumps(PlainScript)),
   <<FENCE, NL>> \o TrailingComma(json_dumps(EmptyObj)),
   SubSeq(json_dumps(PlainScript), 1, 40),
   SubSeq(json_dumps(PlainScript), 1, Len(json_dumps(PlainScript)) - 1),
   json_dumps(PlainScript) \o <<NL, LB, DQ, "x">>,
   <<LB, DQ, "hashtags", DQ, COLON, SP, LS, DQ, "x", DQ, COMMA, SP, HASH, "y", DQ, RS, RB>>,
   <<LB, DQ, "hashtags", DQ, COLON, SP, LS, DQ, "x", DQ, COMMA, SP, HASH, DQ, RS, RB>>,
   <<LB, DQ, "key_points", DQ, COLON, SP, LS, DQ, "x", DQ, NL, SP, DQ, "y", DQ, RS, RB>>,
   <<LB, DQ, "a", DQ, COLON, SP, DQ, "x", NL, DQ, RB>>}

RepliesTried ==
  {DumpOf(v) : v \in ScriptsTried \cup OddValuesTried} \cup {RawText(t) : t \in RawTextsTried}

ModelReplies == Respond(reply.text)

\* The caller serialises the returned value and has it normalised again.
FeedBack ==
  /\ pc = "returned"
  /\ result.kind = "return"
  /\ calls < MaxCalls
  /\ reply' = DumpOf(result.value)
  /\ calls' = calls + 1
  /\ pc' = "start"
  /\ attempt' = 1
  /\ requested' = << >>
  /\ response' = NoResponse
  /\ last_error' = NoError
  /\ generated_content' = << >>
  /\ result' = Running
  /\ UNCHANGED <<model, style, target_duration>>
  /\ UNCHANGED <<timing_vars, extract_vars, main_vars, thread_vars, video_vars, batch_vars>>

InitNormalize ==
  /\ model = DEFAULT_MODEL
  /\ style \in StylesTried
  /\ target_duration \in {30, DEFAULT_TARGET_DURATION}
  /\ reply \in RepliesTried
  /\ InitCall
  /\ NoTiming /\ NoExtract /\ NoMain /\ NoThread /\ NoVideo /\ NoBatch

NextNormalize == Begin \/ ModelReplies \/ FeedBack
SpecNormalize == InitNormalize /\ [][NextNormalize]_vars

(***************************************************************************)
(* Timing runs: validate_and_enhance_timing on a parsed script whose       *)
(* sections last 15, 15 and 30 seconds.                                    *)
(***************************************************************************)
\* A cue with this timestamp and duration; None leaves the key out.
TimedCue(timestamp, duration) ==
  JObj((IF timestamp = JNull THEN << >> ELSE << <<<<"timestamp">>, timestamp>> >>)
       \o (IF duration = JNull THEN << >> ELSE << <<<<"duration">>, duration>> >>)
       \o << <<<<"type">>, W("text_overlay")>> >>)
TimestampsTried == {JNull} \cup {JNum(n) : n \in {-2, 0, 14, 15, 20, 29, 30, 59, 60, 70}}
DurationsTried == {JNull} \cup {JNum(n) : n \in {0, 3, 16, 40}}
CueListsTried ==
  {<<TimedCue(t, d)>> : t \in TimestampsTried, d \in DurationsTried}
  \cup {<<TimedCue(JNum(t), JNum(3)), TimedCue(u, JNum(d))>> :
          t \in {5, 70}, u \in {JNull, JNum(20), JNum(40)}, d \in {0, 3}}
TimingScriptsTried ==
  {Script(SectionWithCues(<<"a">>, 15, c), Section(<<"b">>, 15), Section(<<"c">>, 30), 60) :
     c \in CueListsTried}
  \cup {Script(Section(<<"a">>, 15), SectionWithCues(<<"b">>, 15, c), Section(<<"c">>, 30), 60) :
          c \in CueListsTried}
  \cup {Script(Section(<<"a">>, 15), Section(<<"b">>, 15), SectionWithCues(<<"c">>, 30, c), 60) :
          c \in CueListsTried}

\* Lines 961-962: the parsed script is validated.
ValidateTiming ==
  /\ timing_pc = "parsed"
  /\ script_data' = validate_and_enhance_timing(script_data)
  /\ timing_pc' = "validated"
  /\ UNCHANGED parsed_script
  /\ UNCHANGED <<gs_vars, extract_vars, main_vars, thread_vars, video_vars, batch_vars>>

InitTiming ==
  /\ script_data \in TimingScriptsTried
  /\ parsed_script = script_data
  /\ timing_pc = "parsed"
  /\ NoCall /\ NoExtract /\ NoMain /\ NoThread /\ NoVideo /\ NoBatch

NextTiming == ValidateTiming
SpecTiming == InitTiming /\ [][NextTiming]_vars

(***************************************************************************)
(* The fallback loop: claims C1, C2, C3.                                   *)
(***************************************************************************)
Last(seq) == seq[Len(seq)]
HookText(script) == Item(Item(script, "hook"), "text")
IsOther(m) == m # model
\* The primary model, then the fixed list without the primary model.
ExpectedOrder ==
  <<model>> \o SelectSeq(<<"qwen/qwen-2.5-72b-instruct:free",
                           "microsoft/phi-3-medium-4k-instruct:free",
                           "deepseek/deepseek-r1-0528:free">>, IsOther)
BadGateway == <<"502", SP, "Bad", SP, "Gateway">>
Unauthorized == <<"401", SP, "Unauthorized">>

\* C1: the first candidate whose request succeeds ends the loop: once a
\* response is there no further candidate is requested, and the call returns
\* the script built from the response of the candidate requested last.
FirstSuccessEndsLoop ==
  /\ [](pc = "returned" /\ response.given =>
          /\ result.kind = "return"
          /\ IsObj(result.value)
          /\ HookText(result.value) = W(Last(requested))
          /\ response.content = ReplyOf(Last(requested)))
  /\ [][response.given => requested' = requested]_vars
\* C1's scenario: M1 fails with 502 Bad Gateway, M2 succeeds, M3 is not requested.
SecondCandidateAnswers ==
  /\ pc = "returned"
  /\ Len(ExpectedOrder) >= 3
  /\ requested = SubSeq(ExpectedOrder, 1, 2)
  /\ last_error = BadGateway
  /\ response.given
  /\ HookText(result.value) = W(ExpectedOrder[2])

\* C2: the candidates are the primary model followed by the fixed list,
\* without duplicates; the requests of one call follow that order, each
\* candidate requested at most once.
RequestsFollowOrder ==
  /\ unique_fallback_models(model) = ExpectedOrder
  /\ Len(requested) <= Cardinality({fallback_models(model)[i] : i \in 1..4})
  /\ requested = SubSeq(ExpectedOrder, 1, Len(requested))
  /\ \A i, j \in 1..Len(requested) : i # j => requested[i] # requested[j]
\* A primary model of the fixed list: every one of the three candidates has failed.
AllDistinctCandidatesFailed ==
  /\ pc = "returned"
  /\ model = "qwen/qwen-2.5-72b-instruct:free"
  /\ ~response.given
  /\ Len(requested) = 3

\* The request to the last candidate of the order has failed.
FinalCandidateFailed ==
  /\ pc = "returned"
  /\ requested = ExpectedOrder
  /\ ~response.given
  /\ last_error # NoError
\* C3 as stated: the failure of the final candidate ends the call in an error.
FinalFailureRaises == FinalCandidateFailed => result.kind = "raise"
\* C3 amended: the failure of the final candidate is caught inside
\* generate_script, and the call returns None.
FinalFailureReturnsNone == FinalCandidateFailed => result = Returned(JNull)
FinalCandidateUnauthorized == FinalCandidateFailed /\ last_error = Unauthorized

(***************************************************************************)
(* Response normalisation: claims C4, C5, C6, C7.                          *)
(***************************************************************************)
\* d[key] for a key given by its atoms, and d without a key.
Lookup(d, key) == d.m[CHOOSE i \in 1..Len(d.m) : d.m[i][1] = key][2]
Without(d, k) == JObj(SelectSeq(d.m, LAMBDA member : member[1] # <<k>>))
SectionSet == {"hook", "intro", "explainer"}
\* A call whose request was answered has returned.
Normalized == pc = "returned" /\ response.given

ValidSection(section) ==
  /\ IsObj(section)
  /\ Has(section, "text")
  /\ Has(section, "duration_seconds")
StructurallyValid(script) ==
  /\ IsObj(script)
  /\ \A name \in SectionSet : Has(script, name) /\ ValidSection(Item(script, name))
  /\ Has(script, "metadata")

\* C4: whatever text the model answers with, the call returns an object with
\* hook, intro and explainer sections, each with a text and a duration, and
\* metadata.
AlwaysValidArtifact ==
  Normalized => result.kind = "return" /\ StructurallyValid(result.value)

\* Every parse of the cascade fails on this text.
AllStagesFail(text) ==
  /\ ~json_loads(text).ok
  /\ BraceMatch(text).found =>
       /\ ~json_loads(BraceMatch(text).text).ok
       /\ fix_common_json_errors(BraceMatch(text).text) # BraceMatch(text).text =>
            ~json_loads(fix_common_json_errors(BraceMatch(text).text)).ok
SectionIs(section, text, seconds) ==
  /\ Item(section, "text") = W(text)
  /\ Item(section, "duration_seconds") = JNum(seconds)

\* C5: when every parse stage fails, the call returns the placeholder: three
\* sections that tell of the failure, lasting 15, 15 and 30 seconds, and
\* metadata with the text of the model as raw_content and the requested
\* duration and style.
FailedParseGivesPlaceholder ==
  Normalized /\ AllStagesFail(generated_content) =>
    /\ result.kind = "return"
    /\ IsObj(result.value)
    /\ Keys(result.value) = {<<"hook">>, <<"intro">>, <<"explainer">>, <<"metadata">>}
    /\ SectionIs(Item(result.value, "hook"),
                 "Generated content could not be parsed as JSON", 15)
    /\ SectionIs(Item(result.value, "intro"), "Please review the raw generated content", 15)
    /\ SectionIs(Item(result.value, "explainer"),
                 "The AI generated content but not in expected format", 30)
    /\ Get(Item(result.value, "metadata"), "raw_content", JNull) = JStr(generated_content)
    /\ Item(Item(result.value, "metadata"), "total_duration") = JNum(target_duration)
    /\ Item(Item(result.value, "metadata"), "style") = W(style)
\* A text with a pair of braces that no stage can parse, for a duration of 30.
UnparseableBraces ==
  /\ Normalized
  /\ AllStagesFail(generated_content)
  /\ BraceMatch(generated_content).found
  /\ generated_content # reply.text
  /\ target_duration = 30

\* The artifacts of the round trip: sections with a text and a positive
\* duration, cues with a timestamp and a duration, metadata with a duration.
WellFormedCue(cue) ==
  /\ IsObj(cue)
  /\ Has(cue, "timestamp") /\ IsNum(Item(cue, "timestamp"))
  /\ Has(cue, "duration") /\ IsNum(Item(cue, "duration"))
  /\ \A k \in {"type", "content", "tweet_id", "reply_id"} : Has(cue, k) => IsStr(Item(cue, k))
  /\ Has(cue, "presentation") => IsObj(Item(cue, "presentation"))
WellFormedSection(section) ==
  /\ IsObj(section)
  /\ Has(section, "text") /\ IsStr(Item(section, "text"))
  /\ Has(section, "duration_seconds") /\ IsNum(Item(section, "duration_seconds"))
  /\ Item(section, "duration_seconds").n > 0
  /\ Has(section, "visual_cues") =>
       /\ IsArr(Item(section, "visual_cues"))
       /\ \A i \in 1..Len(Item(section, "visual_cues").items) :
            WellFormedCue(Item(section, "visual_cues").items[i])
WellFormed(script) ==
  /\ IsObj(script)
  /\ \A name \in SectionSet : Has(script, name) /\ WellFormedSection(Item(script, name))
  /\ Has(script, "metadata") /\ IsObj(Item(script, "metadata"))
  /\ Has(Item(script, "metadata"), "total_duration")
  /\ IsNum(Item(Item(script, "metadata"), "total_duration"))
  /\ Has(script, "visual_timeline") => IsObj(Item(script, "visual_timeline"))
\* The model has answered with the dump of a well-formed artifact.
RoundTrip == Normalized /\ reply.dumped.is /\ WellFormed(reply.dumped.v)
CueCount(section) == Len(Get(section, "visual_cues", JArr(<< >>)).items)

\* C6 as stated: the dump of a well-formed artifact is normalised to that artifact.
RoundTripIsIdentity == RoundTrip => result.value = reply.dumped.v
\* C6 amended: the dump of a well-formed artifact is normalised to an object
\* with the keys of the artifact and visual_timeline; whatever is not a
\* section or the timeline is kept, a section keeps its text and all its
\* fields but the timing of its cues, and the timeline holds one event for
\* each cue.
RoundTripKeepsTexts ==
  RoundTrip =>
    /\ result.kind = "return"
    /\ IsObj(result.value)
    /\ Keys(result.value) = Keys(reply.dumped.v) \cup {<<"visual_timeline">>}
    /\ \A key \in Keys(reply.dumped.v) \ {<<"hook">>, <<"intro">>, <<"explainer">>,
                                          <<"visual_timeline">>} :
         Lookup(result.value, key) = Lookup(reply.dumped.v, key)
    /\ \A name \in SectionSet :
         /\ Item(Item(result.value, name), "text") = Item(Item(reply.dumped.v, name), "text")
         /\ Without(Item(result.value, name), "visual_cues")
              = Without(Item(reply.dumped.v, name), "visual_cues")
         /\ CueCount(Item(result.value, name)) = CueCount(Item(reply.dumped.v, name))
    /\ IsObj(Item(result.value, "visual_timeline"))
    /\ Len(Item(Item(result.value, "visual_timeline"), "timeline_events").items)
         = CueCount(Item(reply.dumped.v, "hook")) + CueCount(Item(reply.dumped.v, "intro"))
           + CueCount(Item(reply.dumped.v, "explainer"))
\* A well-formed artifact with a text of quotes, braces and a newline, a hook
\* of 10 seconds and a cue after the hook: the cue is moved, a timeline added.
TrickyTextRoundTrip ==
  /\ RoundTrip
  /\ calls = 1
  /\ Item(Item(reply.dumped.v, "hook"), "text") = JStr(<<DQ, "q", DQ, SP, BS, NL, LB, COMMA, RB, RS>>)
  /\ Item(Item(reply.dumped.v, "hook"), "duration_seconds") = JNum(10)
  /\ CueCount(Item(reply.dumped.v, "hook")) = 1
  /\ Item(Item(result.value, "hook"), "visual_cues") # Item(Item(reply.dumped.v, "hook"), "visual_cues")

\* The value is the placeholder of some text, style and duration.
IsPlaceholder(v) ==
  /\ IsObj(v)
  /\ Has(v, "metadata") /\ IsObj(Item(v, "metadata"))
  /\ \A k \in {"raw_content", "style", "total_duration"} : Has(Item(v, "metadata"), k)
  /\ IsStr(Item(Item(v, "metadata"), "raw_content"))
  /\ IsStr(Item(Item(v, "metadata"), "style"))
  /\ Len(Item(Item(v, "metadata"), "style").s) = 1
  /\ IsNum(Item(Item(v, "metadata"), "total_duration"))
  /\ v = Placeholder(Item(Item(v, "metadata"), "raw_content").s,
                     Item(Item(v, "metadata"), "style").s[1],
                     Item(Item(v, "metadata"), "total_duration").n)
\* The model has answered with the dump of a placeholder.
PlaceholderAgain == Normalized /\ reply.dumped.is /\ IsPlaceholder(reply.dumped.v)
\* The model has answered with the dump of a normalised placeholder.
NormalizedPlaceholderAgain ==
  /\ Normalized /\ reply.dumped.is /\ IsObj(reply.dumped.v)
  /\ Has(reply.dumped.v, "visual_timeline")
  /\ IsPlaceholder(Without(reply.dumped.v, "visual_timeline"))

\* C7 as stated: normalising the dump of the placeholder returns the
\* placeholder, nothing added or removed.
PlaceholderIsFixedPoint == PlaceholderAgain => result.value = reply.dumped.v
\* C7 amended: normalising the dump of the placeholder returns the placeholder
\* with its four keys unchanged and one key added, a visual_timeline of the
\* placeholder's total duration without events and tweet references;
\* normalising the dump of that value returns it unchanged.
PlaceholderGainsTimeline ==
  /\ PlaceholderAgain =>
       /\ result.kind = "return"
       /\ IsObj(result.value)
       /\ Keys(result.value) = Keys(reply.dumped.v) \cup {<<"visual_timeline">>}
       /\ Without(result.value, "visual_timeline") = reply.dumped.v
       /\ IsObj(Item(result.value, "visual_timeline"))
       /\ Keys(Item(result.value, "visual_timeline"))
            = {<<"total_duration">>, <<"timeline_events">>, <<"tweet_references">>,
               <<"visual_transitions">>}
       /\ Item(Item(result.value, "visual_timeline"), "total_duration")
            = Item(Item(reply.dumped.v, "metadata"), "total_duration")
       /\ Item(Item(result.value, "visual_timeline"), "timeline_events") = JArr(<< >>)
       /\ Item(Item(result.value, "visual_timeline"), "tweet_references") = EmptyObj
  /\ NormalizedPlaceholderAgain => result.value = reply.dumped.v
\* The placeholder of a text that is not JSON has been normalised again.
PlaceholderNormalizedAgain ==
  /\ PlaceholderAgain
  /\ calls = 2
  /\ Item(Item(reply.dumped.v, "metadata"), "raw_content") = W("Here is the script")

(***************************************************************************)
(* Timing validation: claim C8.                                            *)
(***************************************************************************)
\* The start of a section: the durations of the sections before it.
SectionStart(script, name) ==
  CASE name = "hook" -> 0
    [] name = "intro" -> Item(Item(script, "hook"), "duration_seconds").n
    [] name = "explainer" -> Item(Item(script, "hook"), "duration_seconds").n
                             + Item(Item(script, "intro"), "duration_seconds").n
CuesOf(script, name) == Get(Item(script, name), "visual_cues", JArr(<< >>)).items
CueInWindow(cue, start, seconds) ==
  /\ Has(cue, "timestamp")
  /\ IsNum(Item(cue, "timestamp"))
  /\ start <= Item(cue, "timestamp").n
  /\ Item(cue, "timestamp").n < start + seconds

\* C8: after validation the timestamp of every cue lies in the window of its
\* section, from the start of the section up to but not including its end.
CuesInsideSections ==
  timing_pc = "validated" =>
    \A name \in SectionSet :
      \A i \in 1..Len(CuesOf(script_data, name)) :
        CueInWindow(CuesOf(script_data, name)[i], SectionStart(script_data, name),
                    Item(Item(script_data, name), "duration_seconds").n)

(***************************************************************************)
(* Runs of the two id extractions on one record.                           *)
(***************************************************************************)
IdValuesTried == {JNull, JStr(<< >>), W("A"), W("B")}
OneIdTried ==
  {JObj(<< <<<<ParserIdKeys[i]>>, a>> >>) : i \in 1..Len(ParserIdKeys), a \in IdValuesTried}
TwoIdsTried ==
  {JObj(<< <<<<ParserIdKeys[ij[1]]>>, ab[1]>>, <<<<ParserIdKeys[ij[2]]>>, ab[2]>> >>) :
     ij \in {p \in (1..Len(ParserIdKeys)) \X (1..Len(ParserIdKeys)) : p[1] < p[2]},
     ab \in IdValuesTried \X IdValuesTried}
StatusUrlTried == JStr(<<"https:", SLASH, SLASH, "x.com", SLASH, "bob", SLASH, "status", SLASH, "9">>)
FullRecordsTried ==
  {EmptyObj,
   JObj(<< <<<<"text">>, W("hello")>> >>),
   JObj(<< <<<<"id">>, JNum(7)>>, <<<<"user">>, JObj(<< <<<<"screen_name">>, W("alice")>> >>)>>,
           <<<<"full_text">>, W("hello")>>,
           <<<<"entities">>, JObj(<< <<<<"hashtags">>,
                                       JArr(<<JObj(<< <<<<"text">>, W("ai")>> >>)>>)>> >>)>> >>),
   JObj(<< <<<<"replyId">>, W("9")>>, <<<<"replyUrl">>, StatusUrlTried>>,
           <<<<"replyText">>, W("nice")>> >>),
   JObj(<< <<<<"rest_id">>, W("A")>>, <<<<"user">>, W("alice")>> >>)}
RecordsTried == OneIdTried \union TwoIdsTried \union FullRecordsTried

\* thread_parser._extract_tweet_id(raw_record)
ExtractId ==
  /\ "parser" \notin extract_done
  /\ found_id' = extract_tweet_id(raw_record)
  /\ extract_done' = extract_done \union {"parser"}
  /\ UNCHANGED <<raw_record, extracted>>
  /\ UNCHANGED <<gs_vars, timing_vars, main_vars, thread_vars, video_vars, batch_vars>>

\* text_extractor.extract_tweet_text(raw_record)
ExtractText ==
  /\ "text" \notin extract_done
  /\ extracted' = extract_tweet_text(raw_record)
  /\ extract_done' = extract_done \union {"text"}
  /\ UNCHANGED <<raw_record, found_id>>
  /\ UNCHANGED <<gs_vars, timing_vars, main_vars, thread_vars, video_vars, batch_vars>>

InitExtract ==
  /\ raw_record \in RecordsTried
  /\ found_id = Value(JNull) /\ extracted = JNull /\ extract_done = {}
  /\ NoCall /\ NoTiming /\ NoMain /\ NoThread /\ NoVideo /\ NoBatch
NextExtract == ExtractId \/ ExtractText
SpecExtract == InitExtract /\ [][NextExtract]_vars

(***************************************************************************)
(* Runs of the pipeline.                                                   *)
(***************************************************************************)
VideoUrlTried(resolution) ==
  JStr(<<"https:", SLASH, SLASH, "video.twimg.com", SLASH, "vid", SLASH, "avc1", SLASH,
         resolution, SLASH, "a.mp4">>)
Variant(type_key, url_key, url, bitrate) ==
  JObj(<< <<<<type_key>>, MP4>>, <<<<url_key>>, url>>, <<<<"bitrate">>, JNum(bitrate)>> >>)
Alice == JObj(<< <<<<"screen_name">>, W("alice")>> >>)
MediaDetailsTried ==
  JArr(<<JObj(<< <<<<"type">>, W("video")>>,
                 <<<<"video_info">>,
                   JObj(<< <<<<"variants">>,
                             JArr(<<Variant("content_type", "url", VideoUrlTried("640x360"), 83),
                                    Variant("content_type", "url", VideoUrlTried("1280x720"),
                                            121)>>)>> >>)>> >>)>>)
RootsTried ==
  {JNull,
   JObj(<< <<<<"id_str">>, W("T1")>>, <<<<"user">>, Alice>>, <<<<"text">>, W("hi")>> >>),
   JObj(<< <<<<"id_str">>, W("T1")>>, <<<<"user">>, Alice>>, <<<<"text">>, W("hi")>>,
           <<<<"mediaDetails">>, MediaDetailsTried>> >>),
   JObj(<< <<<<"rest_id">>, W("T2")>>,
           <<<<"author">>, JObj(<< <<<<"username">>, W("bob")>> >>)>> >>),
   JObj(<< <<<<"id_str">>, W("T3")>> >>),
   JObj(<< <<<<"id">>, JNum(7)>>, <<<<"user">>, Alice>> >>),
   \* roots without an id
   JObj(<< <<<<"user">>, Alice>>, <<<<"text">>, W("hi")>> >>),
   JObj(<< <<<<"text">>, W("hi")>> >>),
   JObj(<< <<<<"user">>, W("alice")>>, <<<<"text">>, W("hi")>> >>),
   JObj(<< <<<<"id_str">>, JStr(<< >>)>>, <<<<"tweet_id">>, JNull>>,
           <<<<"username">>, W("carol")>> >>)}
ReplyListsTried ==
  {JArr(<< >>),
   JArr(<<JObj(<< <<<<"replyId">>, W("r1")>>,
                  <<<<"author">>, JObj(<< <<<<"username">>, W("dave")>> >>)>>,
                  <<<<"replyText">>, W("nice")>> >>)>>),
   JArr(<<JObj(<< <<<<"replyText">>, W("anonymous")>> >>),
          JObj(<< <<<<"id_str">>, W("r2")>>,
                  <<<<"video">>,
                    JObj(<< <<<<"variants">>,
                              JArr(<<Variant("type", "src", VideoUrlTried("1280x720"), 0)>>)>>
                         >>)>> >>)>>),
   JArr(<<EmptyObj, JObj(<< <<<<"id">>, JNum(5)>>, <<<<"username">>, W("frank")>> >>)>>),
   JArr(<<W("x")>>)}

(***************************************************************************)
(* main.process_thread_and_replies: sys.exit(1) and what the outer         *)
(* `except Exception` catches end the run with exit code 1; a return ends  *)
(* it with exit code 0.                                                    *)
(***************************************************************************)
Exit(code) == main_pc' = "exited" /\ exit_code' = code

\* Lines 96-106: scraper.fetch_tweet_and_replies gives the tweet, None when
\* the fetch failed, and the list of the replies.
FetchThread ==
  /\ main_pc = "start"
  /\ \E tweet \in RootsTried, replies \in ReplyListsTried :
       /\ main_tweet_data' = tweet
       /\ replies_list_data' = replies
       /\ IF ~Truthy(tweet) THEN Exit(1)
          ELSE main_pc' = "fetched" /\ UNCHANGED exit_code
  /\ UNCHANGED <<parsed_data, files, saved_media_files, disk, tweet_url, effective_api_token,
                 script_step>>
  /\ UNCHANGED <<gs_vars, timing_vars, extract_vars, thread_vars, video_vars, batch_vars>>

\* Lines 108-120.
ParseFetched ==
  /\ main_pc = "fetched"
  /\ IF \/ parse_tweet_and_replies_data(main_tweet_data, replies_list_data).exc
        \/ ~Truthy(parse_tweet_and_replies_data(main_tweet_data, replies_list_data).v)
     THEN Exit(1) /\ UNCHANGED parsed_data
     ELSE /\ parsed_data' = parse_tweet_and_replies_data(main_tweet_data, replies_list_data).v
          /\ main_pc' = "parsed" /\ UNCHANGED exit_code
  /\ UNCHANGED <<main_tweet_data, replies_list_data, files, saved_media_files, disk, tweet_url,
                 effective_api_token, script_step>>
  /\ UNCHANGED <<gs_vars, timing_vars, extract_vars, thread_vars, video_vars, batch_vars>>

\* Lines 122-131: what save_parsed_thread_data wrote before it raised stays.
SaveParsed ==
  /\ main_pc = "parsed"
  /\ files' = files \union save_parsed_thread_data(parsed_data, DEFAULT_OUTPUT_DIR, disk).files
  /\ IF save_parsed_thread_data(parsed_data, DEFAULT_OUTPUT_DIR, disk).exc
     THEN Exit(1) /\ UNCHANGED saved_media_files
     ELSE /\ saved_media_files' =
               save_parsed_thread_data(parsed_data, DEFAULT_OUTPUT_DIR, disk).saved_files
          /\ IF saved_media_files' = << >> THEN Exit(0)
             ELSE main_pc' = "saved" /\ UNCHANGED exit_code
  /\ UNCHANGED <<main_tweet_data, replies_list_data, parsed_data, disk, tweet_url,
                 effective_api_token, script_step>>
  /\ UNCHANGED <<gs_vars, timing_vars, extract_vars, thread_vars, video_vars, batch_vars>>

\* How generate_tiktok_script_automatically (lines 145-184) ends: it returns
\* without a thread_text.json in the directory and when ScriptGenerator cannot
\* be built (no key, or a model that is not available), and
\* generator.process_thread_file, which ScriptGenerator does not define,
\* raises AttributeError, which the function catches.
ScriptStep(thread_text_saved, generator_built) ==
  IF ~thread_text_saved THEN "no_thread_file"
  ELSE IF ~generator_built THEN "not_initialized"
  ELSE "failed"

\* Lines 133-139, and the return of process_thread_and_replies.
GenerateScript ==
  /\ main_pc = "saved"
  /\ \E skip_script \in BOOLEAN, generator_built \in BOOLEAN :
       script_step' =
         IF skip_script THEN "skipped"
         ELSE ScriptStep(\E f \in files : Contains(f, <<"thread_text.json">>), generator_built)
  /\ Exit(0)
  /\ UNCHANGED <<main_tweet_data, replies_list_data, parsed_data, files, saved_media_files, disk,
                 tweet_url, effective_api_token>>
  /\ UNCHANGED <<gs_vars, timing_vars, extract_vars, thread_vars, video_vars, batch_vars>>

\* main, lines 71-84: the URL must name twitter.com or x.com, and a token
\* must be there.
UrlsTried ==
  {<<"https:", SLASH, SLASH, "x.com", SLASH, "bob", SLASH, "status", SLASH, "9">>,
   <<"https:", SLASH, SLASH, "twitter.com", SLASH, "bob", SLASH, "status", SLASH, "9">>,
   <<"https:", SLASH, SLASH, "example.com", SLASH, "9">>}
StartMain ==
  /\ main_pc = "cli"
  /\ \E url \in UrlsTried, apify_token \in {JNull, W("tok")},
        APIFY_API_TOKEN \in {JNull, JStr(<< >>), W("env")} :
       /\ tweet_url' = url
       /\ effective_api_token' = Or(apify_token, APIFY_API_TOKEN)
       /\ IF ~(Contains(url, <<"twitter.com">>) \/ Contains(url, <<"x.com">>)) THEN Exit(1)
          ELSE IF ~Truthy(effective_api_token') THEN Exit(1)
          ELSE main_pc' = "start" /\ UNCHANGED exit_code
  /\ UNCHANGED <<main_tweet_data, replies_list_data, parsed_data, files, saved_media_files, disk,
                 script_step>>
  /\ UNCHANGED <<gs_vars, timing_vars, extract_vars, thread_vars, video_vars, batch_vars>>

InitPipeline ==
  /\ main_pc = "cli" /\ main_tweet_data = JNull /\ replies_list_data = JArr(<< >>)
  /\ parsed_data = JNull /\ files = {} /\ saved_media_files = << >> /\ exit_code = -1
  /\ disk \in [dirs : BOOLEAN, writes : BOOLEAN, downloads : BOOLEAN]
  /\ tweet_url = << >> /\ effective_api_token = JNull /\ script_step = "none"
  /\ NoCall /\ NoTiming /\ NoExtract /\ NoThread /\ NoVideo /\ NoBatch
NextPipeline == StartMain \/ FetchThread \/ ParseFetched \/ SaveParsed \/ GenerateScript
SpecPipeline == InitPipeline /\ [][NextPipeline]_vars

(***************************************************************************)
(* Claim C9.                                                               *)
(***************************************************************************)
\* The known id keys that hold a value other than None, by their position.
IdKeysHeld(tweet_data) ==
  {i \in 1..Len(ParserIdKeys) : Get(tweet_data, ParserIdKeys[i], JNull) # JNull}
FirstIdHeld(tweet_data) ==
  Item(tweet_data, ParserIdKeys[CHOOSE i \in IdKeysHeld(tweet_data) :
                                  \A j \in IdKeysHeld(tweet_data) : i <= j])

\* C9: for a record that holds one of the ten known id keys, both
\* _extract_tweet_id and extract_tweet_text give the value of the first key, in
\* the fixed order, whose value is not None; for a record that holds none of
\* them both signal failure and give no record.
ExtractionFindsFirstId ==
  /\ "parser" \in extract_done =>
       found_id = Value(IF IdKeysHeld(raw_record) # {} THEN FirstIdHeld(raw_record) ELSE JNull)
  /\ "text" \in extract_done =>
       IF IdKeysHeld(raw_record) # {}
       THEN IsObj(extracted) /\ Get(extracted, "tweet_id", JNull) = FirstIdHeld(raw_record)
       ELSE extracted = JNull

(***************************************************************************)
(* Claim C10.                                                              *)
(***************************************************************************)
\* No known id key of the record holds a value that resolves to an id.
NoResolvableId(tweet_data) ==
  \/ ~IsObj(tweet_data)
  \/ \A i \in 1..Len(ParserIdKeys) : ~Truthy(Get(tweet_data, ParserIdKeys[i], JNull))

\* C10: when the root record has no resolvable id, whatever the replies are,
\* parse_tweet_and_replies_data gives no tree, the run ends with exit code 1,
\* and no file is written.
MissingRootIdAborts ==
  main_pc \notin {"cli", "start"} /\ NoResolvableId(main_tweet_data) =>
    /\ main_pc \in {"fetched", "exited"}
    /\ parsed_data = JNull
    /\ files = {}
    /\ main_pc = "exited" => exit_code = 1

\* A fetched root without an id, with a reply that has one, and the run over.
RootWithoutIdExited ==
  /\ main_pc = "exited" /\ exit_code = 1
  /\ Truthy(main_tweet_data) /\ NoResolvableId(main_tweet_data)
  /\ \E i \in 1..Len(replies_list_data.items) :
       /\ IsObj(replies_list_data.items[i])
       /\ ~NoResolvableId(replies_list_data.items[i])

(***************************************************************************)
(* Runs of the two assemblies of a thread on one root and its replies.     *)
(***************************************************************************)
MaxReplies == 3
Dave ==
  JObj(<< <<<<"replyId">>, W("r1")>>,
          <<<<"author">>, JObj(<< <<<<"username">>, W("dave")>> >>)>>,
          <<<<"replyText">>, W("nice")>> >>)
\* A reply with a video and without an author.
Anonymous ==
  JObj(<< <<<<"id_str">>, W("r2")>>, <<<<"full_text">>, W("look")>>,
          <<<<"video">>,
            JObj(<< <<<<"variants">>,
                      JArr(<<Variant("type", "src", VideoUrlTried("1280x720"), 0)>>)>> >>)>> >>)
ReplyRecordsTried ==
  {Dave, Anonymous,
   JObj(<< <<<<"rest_id">>, W("r3")>>, <<<<"user">>, Alice>> >>),
   JObj(<< <<<<"replyText">>, W("no id")>>, <<<<"username">>, W("erin")>> >>),
   EmptyObj, JNull}
RECURSIVE ListsOf(_, _)
ListsOf(records, n) ==
  IF n = 0 THEN {<< >>}
  ELSE ListsOf(records, n - 1) \union
       {Append(l, r) : l \in {k \in ListsOf(records, n - 1) : Len(k) = n - 1}, r \in records}
ThreadRootsTried ==
  {JObj(<< <<<<"id_str">>, W("T1")>>, <<<<"user">>, Alice>>, <<<<"text">>, W("hi")>>,
           <<<<"mediaDetails">>, MediaDetailsTried>> >>),
   \* roots with an id and no author
   JObj(<< <<<<"id_str">>, W("T3")>>, <<<<"full_text">>, W("hi")>>,
           <<<<"mediaDetails">>, MediaDetailsTried>> >>),
   JObj(<< <<<<"rest_id">>, W("T4")>>,
           <<<<"user">>, JObj(<< <<<<"id_str">>, W("42")>> >>)>> >>),
   JObj(<< <<<<"id_str">>, W("T5")>>, <<<<"user">>, JNull>>, <<<<"text">>, W("hi")>> >>),
   \* a root without an id
   JObj(<< <<<<"user">>, Alice>>, <<<<"text">>, W("hi")>> >>)}

\* thread_parser.parse_tweet_and_replies_data(thread_tweet, thread_replies, scraper)
ParseThread ==
  /\ "parse" \notin thread_done
  /\ tree' = parse_tweet_and_replies_data(thread_tweet, thread_replies)
  /\ thread_done' = thread_done \union {"parse"}
  /\ UNCHANGED <<thread_tweet, thread_replies, thread_text>>
  /\ UNCHANGED <<gs_vars, timing_vars, extract_vars, main_vars, video_vars, batch_vars>>

\* text_extractor.extract_thread_text(thread_tweet, thread_replies)
ExtractThreadText ==
  /\ "text" \notin thread_done
  /\ thread_text' = extract_thread_text(thread_tweet, thread_replies)
  /\ thread_done' = thread_done \union {"text"}
  /\ UNCHANGED <<thread_tweet, thread_replies, tree>>
  /\ UNCHANGED <<gs_vars, timing_vars, extract_vars, main_vars, video_vars, batch_vars>>

InitThread ==
  /\ thread_tweet \in ThreadRootsTried
  /\ thread_replies \in {JArr(l) : l \in ListsOf(ReplyRecordsTried, MaxReplies)}
  /\ tree = Value(JNull) /\ thread_text = JArr(<< >>) /\ thread_done = {}
  /\ NoCall /\ NoTiming /\ NoExtract /\ NoMain /\ NoVideo /\ NoBatch
NextThread == ParseThread \/ ExtractThreadText
SpecThread == InitThread /\ [][NextThread]_vars

(***************************************************************************)
(* Claim C11.                                                              *)
(***************************************************************************)
\* The replies with a resolvable id, in the order of the list.
WithId(replies) == SelectSeq(replies, LAMBDA r : ~NoResolvableId(r))
\* The records that extract_tweet_text extracts, in the order of the list.
Extractions(records) ==
  SelectSeq([i \in 1..Len(records) |-> extract_tweet_text(records[i])],
            LAMBDA e : e # JNull)
TreeReplies == Item(tree.v, "replies").items

\* C11: for a root with a resolvable id, the replies of the tree are the
\* replies of the list that have a resolvable id, one for one and in the order
\* of the list, duplicates included; no reply makes the assembly end otherwise
\* than it ends without replies.  extract_thread_text returns the extraction
\* of the root followed by the extractions of the replies, in the order of the
\* list.
RepliesKeptInOrder ==
  /\ "parse" \in thread_done /\ ~NoResolvableId(thread_tweet) =>
       /\ tree.exc = parse_tweet_and_replies_data(thread_tweet, JArr(<< >>)).exc
       /\ ~tree.exc =>
            /\ IsObj(tree.v)
            /\ Len(TreeReplies) = Len(WithId(thread_replies.items))
            /\ \A i \in 1..Len(TreeReplies) :
                 /\ Item(TreeReplies[i], "reply_text_content") = WithId(thread_replies.items)[i]
                 /\ \E k \in 1..Len(ParserIdKeys) :
                      /\ Has(WithId(thread_replies.items)[i], ParserIdKeys[k])
                      /\ Item(TreeReplies[i], "reply_id") =
                           Item(WithId(thread_replies.items)[i], ParserIdKeys[k])
  /\ "text" \in thread_done /\ Truthy(thread_tweet) =>
       thread_text = JArr(Extractions(<<thread_tweet>> \o thread_replies.items))
\* Both assemblies ran on a list that repeats a reply and holds a reply
\* without an id and an empty one between two replies with an id.
RepeatedAndDroppedReplies ==
  /\ thread_done = {"parse", "text"}
  /\ ~tree.exc /\ IsObj(tree.v)
  /\ Len(thread_replies.items) = 3
  /\ Len(TreeReplies) = 2
  /\ thread_replies.items[1] = thread_replies.items[3]
  /\ thread_replies.items[2] = EmptyObj
  /\ Len(thread_text.items) = 3

(***************************************************************************)
(* Claim C12.                                                              *)
(***************************************************************************)
NoAuthor(record) == ~Truthy(extract_author_screen_name(record))
\* The id of the user of a record, or the sentinel.
UserIdOrUnknown(record) ==
  IF IsObj(Get(record, "user", JNull)) /\ Truthy(Get(Item(record, "user"), "id_str", JNull))
  THEN Item(Item(record, "user"), "id_str")
  ELSE W("unknown_user")

\* C12: a root with a resolvable id and no resolvable author yields a tree
\* named after the id of its user or "unknown_user", with the record as its
\* text content and the video of the record; a reply with a resolvable id and
\* no resolvable author is kept as "unknown_reply_author", with its record and
\* its video.
MissingAuthorNeverFatal ==
  "parse" \in thread_done /\ ~NoResolvableId(thread_tweet) =>
    /\ NoAuthor(thread_tweet) =>
         /\ ~tree.exc
         /\ IsObj(tree.v)
         /\ Item(tree.v, "user_screen_name") = UserIdOrUnknown(thread_tweet)
         /\ Item(tree.v, "thread_text_content") = thread_tweet
         /\ Item(tree.v, "thread_videos") =
              Videos(Item(tree.v, "thread_id"), extract_video_url(thread_tweet))
    /\ ~tree.exc =>
         \A i \in 1..Len(TreeReplies) :
           NoAuthor(WithId(thread_replies.items)[i]) =>
             /\ Item(TreeReplies[i], "reply_author_screen_name") = W("unknown_reply_author")
             /\ Item(TreeReplies[i], "reply_text_content") = WithId(thread_replies.items)[i]
             /\ Item(TreeReplies[i], "reply_videos") =
                  Videos(Item(TreeReplies[i], "reply_id"),
                         extract_video_url(WithId(thread_replies.items)[i]))

(***************************************************************************)
(* Runs of extract_video_url on a record that carries one list of          *)
(* variants, in mediaDetails[0].video_info.variants or in video.variants.  *)
(***************************************************************************)
MaxVariants == 3
\* The URL of the variant at position i, with a resolution in its path or
\* without one.
UrlAt(i, resolution) ==
  JStr(<<"https:", SLASH, SLASH, "video.twimg.com", SLASH>> \o
       (IF resolution = "" THEN << >> ELSE <<"vid", SLASH, "avc1", SLASH, resolution, SLASH>>) \o
       <<ToString(i), ".mp4">>)
\* What a variant is made of: its content type, its bitrate (None for a
\* variant without the field) and the resolution in its URL.
Playlist == JStr(<<"application", SLASH, "x-mpegURL">>)
VariantsTried ==
  ([type : {MP4}, bitrate : {JNum(832000), JNum(2176000)},
    resolution : {"", "640x360", "1280x720"}])
  \union [type : {MP4}, bitrate : {JNull}, resolution : {""} \union {ResolutionTokens[t] : t \in 1..Len(ResolutionTokens)}]
  \union [type : {Playlist}, bitrate : {JNull}, resolution : {""}]
VariantAt(location, i, made) ==
  JObj(<< <<<<IF location = "mediaDetails" THEN "content_type" ELSE "type">>, made.type>> >> \o
       (IF made.bitrate = JNull THEN << >> ELSE << <<<<"bitrate">>, made.bitrate>> >>) \o
       << <<<<IF location = "mediaDetails" THEN "url" ELSE "src">>,
            UrlAt(i, made.resolution)>> >>)
RecordWith(location, variants) ==
  IF location = "mediaDetails"
  THEN JObj(<< <<<<"id_str">>, W("T1")>>,
               <<<<"mediaDetails">>,
                 JArr(<<JObj(<< <<<<"type">>, W("video")>>,
                                <<<<"video_info">>,
                                  JObj(<< <<<<"variants">>, JArr(variants)>> >>)>> >>)>>)>> >>)
  ELSE JObj(<< <<<<"id_str">>, W("T1")>>,
               <<<<"video">>, JObj(<< <<<<"variants">>, JArr(variants)>> >>)>> >>)
VideoRecordsTried ==
  {RecordWith(location, [i \in 1..Len(made) |-> VariantAt(location, i, made[i])]) :
     location \in {"mediaDetails", "video"},
     made \in {l \in ListsOf(VariantsTried, MaxVariants) : l # << >>}}

\* scraper.extract_video_url(video_record)
ExtractVideoUrl ==
  /\ video_pc = "start"
  /\ video_url' = extract_video_url(video_record)
  /\ video_pc' = "returned"
  /\ UNCHANGED video_record
  /\ UNCHANGED <<gs_vars, timing_vars, extract_vars, main_vars, thread_vars, batch_vars>>

\* Records without a video: no field, video None, no media, no variants.
NoVideoRecordsTried ==
  {JObj(<< <<<<"id_str">>, W("T1")>> >>),
   JObj(<< <<<<"id_str">>, W("T1")>>, <<<<"video">>, JNull>> >>),
   JObj(<< <<<<"id_str">>, W("T1")>>, <<<<"mediaDetails">>, JArr(<< >>)>> >>),
   JObj(<< <<<<"id_str">>, W("T1")>>, <<<<"mediaDetails">>, JArr(<<JObj(<< <<<<"type">>, W("photo")>> >>)>>)>> >>),
   RecordWith("video", << >>)}

InitVideo ==
  /\ video_record \in VideoRecordsTried \union NoVideoRecordsTried
  /\ video_url = JNull /\ video_pc = "start"
  /\ NoCall /\ NoTiming /\ NoExtract /\ NoMain /\ NoThread /\ NoBatch
NextVideo == ExtractVideoUrl
SpecVideo == InitVideo /\ [][NextVideo]_vars

(***************************************************************************)
(* Claim C13.                                                              *)
(***************************************************************************)
\* The list of variants that the record carries, and its MP4 variants.
VariantsOf(record) ==
  IF Has(record, "mediaDetails")
  THEN (IF /\ Item(record, "mediaDetails").items # << >>
           /\ Has(Item(record, "mediaDetails").items[1], "video_info")
        THEN Item(Item(Item(record, "mediaDetails").items[1], "video_info"), "variants").items
        ELSE << >>)
  ELSE IF Truthy(Get(record, "video", JNull))
  THEN Item(Item(record, "video"), "variants").items
  ELSE << >>
IsMp4(variant) == Get(variant, "content_type", Get(variant, "type", JNull)) = MP4
Mp4Of(record) == SelectSeq(VariantsOf(record), IsMp4)
UrlOf(variant) == Get(variant, "url", Get(variant, "src", JNull))
BitrateOf(variant) == Item(variant, "bitrate").n
\* The MP4 variants all have a bitrate, and there is one.
WithBitrates(record) ==
  /\ Mp4Of(record) # << >>
  /\ \A i \in 1..Len(Mp4Of(record)) : Has(Mp4Of(record)[i], "bitrate")

\* C13: for a record whose MP4 variants all have a bitrate, in mediaDetails or
\* in video and whatever their URLs hold, extract_video_url returns the URL of
\* the variant with the greatest bitrate, and of the first listed of those
\* that share the greatest bitrate.
HighestBitrateReturned ==
  video_pc = "returned" /\ WithBitrates(video_record) =>
    \E i \in 1..Len(Mp4Of(video_record)) :
      /\ video_url = UrlOf(Mp4Of(video_record)[i])
      /\ \A j \in 1..Len(Mp4Of(video_record)) :
           BitrateOf(Mp4Of(video_record)[j]) <= BitrateOf(Mp4Of(video_record)[i])
      /\ \A j \in 1..(i - 1) :
           BitrateOf(Mp4Of(video_record)[j]) < BitrateOf(Mp4Of(video_record)[i])

(***************************************************************************)
(* Claim C14.                                                              *)
(***************************************************************************)
\* The rank of the URL of a variant: 5 for 3840x2160 down to 1 for 480x270,
\* by the highest ranked token that the URL holds, and 0 without a token.
TokenRank(variant) ==
  IF \E t \in 1..Len(ResolutionTokens) : ResolutionTokens[t] \in
                                          {UrlOf(variant).s[k] : k \in 1..Len(UrlOf(variant).s)}
  THEN 6 - (CHOOSE t \in 1..Len(ResolutionTokens) :
              /\ ResolutionTokens[t] \in {UrlOf(variant).s[k] : k \in 1..Len(UrlOf(variant).s)}
              /\ \A u \in 1..(t - 1) :
                   ResolutionTokens[u] \notin
                     {UrlOf(variant).s[k] : k \in 1..Len(UrlOf(variant).s)})
  ELSE 0
\* There is an MP4 variant, and none has a bitrate.
WithoutBitrates(record) ==
  /\ Mp4Of(record) # << >>
  /\ \A i \in 1..Len(Mp4Of(record)) : ~Has(Mp4Of(record)[i], "bitrate")
TopRankedReturned ==
  \E i \in 1..Len(Mp4Of(video_record)) :
    /\ video_url = UrlOf(Mp4Of(video_record)[i])
    /\ \A j \in 1..Len(Mp4Of(video_record)) :
         TokenRank(Mp4Of(video_record)[j]) <= TokenRank(Mp4Of(video_record)[i])

DirKinds == {"missing", "existing", "raises", "unreadable", "gen_fails", "save_fails", "good"}

\* find_thread_directories: the directories that hold a thread_text.json, in
\* the order of the listing.
find_thread_directories(dirs) ==
  SelectSeq([i \in 1..Len(dirs) |-> i], LAMBDA i : dirs[i] # "missing")

\* Every directory is processed, whatever it holds.
AlwaysProcess(thread_dir, force, scripts) == TRUE
\* should_process_thread, for the directories that hold a script.
should_process_thread(thread_dir, force, scripts) ==
  force \/ thread_dir \notin scripts

\* What the tasks share: the semaphore, the positions of the tasks, what
\* they returned, the counters of self and the scripts on the disk.
Shared ==
  [sem |-> semaphore, pcs |-> task_pc, results |-> task_result,
   processed |-> processed_count, success |-> success_count, errors |-> error_count,
   scripts |-> script_files, requests |-> requests, writes |-> script_writes]

\* A semaphore that keeps the slot of a task that ended.
KeepSlot(b, thread_dir) == [b EXCEPT !.pcs[thread_dir] = "done"]
\* The exit of `async with semaphore` (line 198) for the task of thread_dir:
\* release() gives the slot back and wakes the first waiter, which takes it
\* when it runs.
Release(b, thread_dir) ==
  IF b.sem.waiters # << >>
  THEN [b EXCEPT !.sem.waiters = Tail(b.sem.waiters),
                 !.pcs[thread_dir] = "done", !.pcs[Head(b.sem.waiters)] = "holding"]
  ELSE [b EXCEPT !.sem.value = b.sem.value + 1, !.pcs[thread_dir] = "done"]

\* The returns of process_single_thread, which end the task.
ReturnSkipped(b, thread_dir) ==                         \* line 126
  Release([b EXCEPT !.results[thread_dir] = "True"], thread_dir)
ReturnSuccess(b, thread_dir) ==                         \* lines 137-141
  Release([b EXCEPT !.results[thread_dir] = "True", !.success = b.success + 1,
                    !.scripts = b.scripts \union {thread_dir},
                    !.writes[thread_dir] = b.writes[thread_dir] + 1], thread_dir)
\* An error that ends the tasks of the other directories with it.
CancelSiblings(b, thread_dir) ==
  [b EXCEPT !.results[thread_dir] = "False", !.errors = b.errors + 1,
            !.sem.waiters = << >>,
            !.pcs = [d \in DOMAIN b.pcs |-> IF b.pcs[d] = "none" THEN "none" ELSE "done"]]
ReturnError(b, thread_dir) ==                           \* lines 143-154
  Release([b EXCEPT !.results[thread_dir] = "False", !.errors = b.errors + 1], thread_dir)

\* process_single_thread up to the await of the request (lines 121-133), for
\* a directory of the given kind.
BeforeRequest(b, thread_dir, kind, force) ==
  CASE kind = "raises" -> ReturnError(b, thread_dir)
    [] kind # "raises" /\ ~should_process_thread(thread_dir, force, b.scripts) ->
         ReturnSkipped(b, thread_dir)
    [] kind = "unreadable" /\ should_process_thread(thread_dir, force, b.scripts) ->
         ReturnError(b, thread_dir)
    [] OTHER -> [b EXCEPT !.pcs[thread_dir] = "generating",
                          !.requests[thread_dir] = b.requests[thread_dir] + 1]
\* A task that starts without counting itself as processed.
StartUncounted(b, thread_dir, kind, force) == BeforeRequest(b, thread_dir, kind, force)
process_single_thread(b, thread_dir, kind, force) ==
  BeforeRequest([b EXCEPT !.processed = b.processed + 1], thread_dir, kind, force)

\* process_single_thread after the request (lines 135-149).
AfterRequest(b, thread_dir, kind) ==
  IF kind \in {"gen_fails", "save_fails"} THEN ReturnError(b, thread_dir)
  ELSE ReturnSuccess(b, thread_dir)

\* acquire() of `async with semaphore`: a slot is taken when there is one and
\* nobody waits, and the task waits in line otherwise.
Acquire(b, thread_dir) ==
  IF b.sem.value > 0 /\ b.sem.waiters = << >>
  THEN [b EXCEPT !.sem.value = b.sem.value - 1, !.pcs[thread_dir] = "holding"]
  ELSE [b EXCEPT !.sem.waiters = Append(b.sem.waiters, thread_dir),
                 !.pcs[thread_dir] = "waiting"]

\* The exit code that run_batch_processing returns (lines 278-283).
AlwaysZero(report) == 0
BatchExitCode(report) == IF report.errors > 0 THEN 1 ELSE 0

Becomes(b) ==
  /\ semaphore' = b.sem /\ task_pc' = b.pcs /\ task_result' = b.results
  /\ processed_count' = b.processed /\ success_count' = b.success /\ error_count' = b.errors
  /\ script_files' = b.scripts /\ requests' = b.requests /\ script_writes' = b.writes

\* process_all_threads, lines 179-204.
StartBatch ==
  /\ batch_pc = "start"
  /\ thread_dirs' = find_thread_directories(output_dirs)
  /\ IF thread_dirs' = << >>
     THEN /\ stats' = [processed |-> 0, success |-> 0, errors |-> 0]
          /\ batch_pc' = "reported"
          /\ UNCHANGED <<task_pc, semaphore, processed_count, success_count, error_count>>
     ELSE /\ processed_count' = 0 /\ success_count' = 0 /\ error_count' = 0
          /\ semaphore' = [value |-> max_concurrent, waiters |-> << >>]
          /\ task_pc' = [i \in 1..Len(output_dirs) |->
                           IF output_dirs[i] # "missing" THEN "created" ELSE "none"]
          /\ batch_pc' = "gathering"
          /\ UNCHANGED stats
  /\ UNCHANGED <<output_dirs, force_regenerate, max_concurrent, task_result, script_files,
                 batch_exit_code, requests, script_writes>>
  /\ UNCHANGED <<gs_vars, timing_vars, extract_vars, main_vars, thread_vars, video_vars>>

\* The first step of the task of a directory, in the order of line 204: it
\* takes a slot and runs up to the request, or it waits in line.
TaskStarts ==
  /\ batch_pc = "gathering"
  /\ \E d \in 1..Len(output_dirs) :
       /\ task_pc[d] = "created"
       /\ \A e \in 1..(d - 1) : task_pc[e] # "created"
       /\ IF Acquire(Shared, d).pcs[d] = "holding"
          THEN Becomes(process_single_thread(Acquire(Shared, d), d, output_dirs[d],
                                             force_regenerate))
          ELSE Becomes(Acquire(Shared, d))
  /\ UNCHANGED <<output_dirs, force_regenerate, max_concurrent, batch_pc, thread_dirs, stats,
                 batch_exit_code>>
  /\ UNCHANGED <<gs_vars, timing_vars, extract_vars, main_vars, thread_vars, video_vars>>

\* A task that waited runs with the slot it was given.
TaskResumes ==
  /\ batch_pc = "gathering"
  /\ \E d \in 1..Len(output_dirs) :
       /\ task_pc[d] = "holding"
       /\ Becomes(process_single_thread(Shared, d, output_dirs[d], force_regenerate))
  /\ UNCHANGED <<output_dirs, force_regenerate, max_concurrent, batch_pc, thread_dirs, stats,
                 batch_exit_code>>
  /\ UNCHANGED <<gs_vars, timing_vars, extract_vars, main_vars, thread_vars, video_vars>>

\* The request of a task is answered, and the task runs to its end.
TaskGenerated ==
  /\ batch_pc = "gathering"
  /\ \E d \in 1..Len(output_dirs) :
       /\ task_pc[d] = "generating"
       /\ Becomes(AfterRequest(Shared, d, output_dirs[d]))
  /\ UNCHANGED <<output_dirs, force_regenerate, max_concurrent, batch_pc, thread_dirs, stats,
                 batch_exit_code>>
  /\ UNCHANGED <<gs_vars, timing_vars, extract_vars, main_vars, thread_vars, video_vars>>

\* asyncio.gather returns when every task has ended: lines 205-218.
GatherReturns ==
  /\ batch_pc = "gathering"
  /\ \A i \in 1..Len(thread_dirs) : task_pc[thread_dirs[i]] = "done"
  /\ stats' = [processed |-> processed_count, success |-> success_count,
               errors |-> error_count]
  /\ batch_pc' = "reported"
  /\ UNCHANGED <<output_dirs, force_regenerate, max_concurrent, thread_dirs, task_pc, semaphore,
                 processed_count, success_count, error_count, task_result, script_files,
                 batch_exit_code, requests, script_writes>>
  /\ UNCHANGED <<gs_vars, timing_vars, extract_vars, main_vars, thread_vars, video_vars>>

\* main of batch_script_generator, lines 271-292.
ExitBatch ==
  /\ batch_pc = "reported"
  /\ batch_exit_code' = BatchExitCode(stats)
  /\ batch_pc' = "exited"
  /\ UNCHANGED <<output_dirs, force_regenerate, max_concurrent, thread_dirs, task_pc, semaphore,
                 processed_count, success_count, error_count, task_result, script_files, stats,
                 requests, script_writes>>
  /\ UNCHANGED <<gs_vars, timing_vars, extract_vars, main_vars, thread_vars, video_vars>>

MaxDirs == 5
MaxMixed == 3
MaxConcurrent == 3
\* The listings tried: up to MaxMixed directories of any kind, and up to
\* MaxDirs directories that are missing their text, fail to generate or are
\* good.
RECURSIVE KindLists(_, _)
KindLists(kinds, n) ==
  IF n = 0 THEN {<< >>}
  ELSE KindLists(kinds, n - 1) \union
       {Append(l, k) : l \in {j \in KindLists(kinds, n - 1) : Len(j) = n - 1}, k \in kinds}
OutputDirsTried ==
  KindLists(DirKinds, MaxMixed) \union KindLists({"missing", "gen_fails", "good"}, MaxDirs)

InitBatch ==
  /\ output_dirs \in OutputDirsTried
  /\ force_regenerate \in BOOLEAN
  /\ max_concurrent \in 1..MaxConcurrent
  /\ batch_pc = "start" /\ thread_dirs = << >>
  /\ task_pc = [i \in 1..Len(output_dirs) |-> "none"]
  /\ semaphore = [value |-> 0, waiters |-> << >>]
  /\ processed_count = 0 /\ success_count = 0 /\ error_count = 0
  /\ task_result = [i \in 1..Len(output_dirs) |-> "none"]
  /\ script_files = {i \in 1..Len(output_dirs) : output_dirs[i] = "existing"}
  /\ stats = [processed |-> 0, success |-> 0, errors |-> 0]
  /\ batch_exit_code = -1
  /\ requests = [i \in 1..Len(output_dirs) |-> 0]
  /\ script_writes = [i \in 1..Len(output_dirs) |-> 0]
  /\ NoCall /\ NoTiming /\ NoExtract /\ NoMain /\ NoThread /\ NoVideo
NextBatch ==
  StartBatch \/ TaskStarts \/ TaskResumes \/ TaskGenerated \/ GatherReturns \/ ExitBatch
SpecBatch == InitBatch /\ [][NextBatch]_vars
\* The event loop runs every task that can run, and every request is
\* answered or times out.
SpecBatchFair == SpecBatch /\ WF_vars(NextBatch)

(***************************************************************************)
(* Claim C15.                                                              *)
(***************************************************************************)
\* The tasks that hold a slot, and those that wait for one.
Holders == {d \in 1..Len(output_dirs) : task_pc[d] \in {"holding", "generating"}}
Waiting == {d \in 1..Len(output_dirs) : task_pc[d] = "waiting"}

\* C15: at most max_concurrent tasks hold a slot at any moment; a task waits
\* only while every slot is held, and the slot of a task that ended, however
\* it ended, is free again or held by a task that waited.
SlotsBounded ==
  /\ Cardinality(Holders) <= max_concurrent
  /\ batch_pc = "gathering" =>
       /\ semaphore.value + Cardinality(Holders) = max_concurrent
       /\ Waiting # {} => Cardinality(Holders) = max_concurrent
       /\ Waiting = {semaphore.waiters[i] : i \in 1..Len(semaphore.waiters)}
\* Three tasks hold the three slots and one waits, after a task that failed
\* and gave its slot back.
FullWithOneWaiting ==
  /\ max_concurrent = 3
  /\ Cardinality(Holders) = 3
  /\ Waiting # {}
  /\ \E d \in 1..Len(output_dirs) : task_pc[d] = "done" /\ task_result[d] = "False"

(***************************************************************************)
(* Claim C16.                                                              *)
(***************************************************************************)
\* What the task of a directory returns, by what the directory holds.
OwnResult(kind) ==
  IF kind \in {"raises", "unreadable", "gen_fails", "save_fails"} THEN "False" ELSE "True"
OwnOutcome ==
  \A d \in 1..Len(output_dirs) :
    task_result[d] # "none" => output_dirs[d] # "missing" /\ task_result[d] = OwnResult(output_dirs[d])
EveryTaskReturned ==
  \A d \in 1..Len(output_dirs) : output_dirs[d] # "missing" => task_result[d] # "none"

\* C16: what the task of a directory returns depends on that directory alone,
\* whatever happens to the tasks of the others, and the task of every
\* directory found returns in the end.
FailuresStayLocal == []OwnOutcome /\ <>EveryTaskReturned
\* A batch over, in which one task raised, one failed to generate and one
\* succeeded.
FailedBesideSucceeded ==
  /\ batch_pc = "reported"
  /\ \E d, e, f \in 1..Len(output_dirs) :
       /\ output_dirs[d] = "raises" /\ task_result[d] = "False"
       /\ output_dirs[e] = "gen_fails" /\ task_result[e] = "False"
       /\ output_dirs[f] = "good" /\ task_result[f] = "True"

(***************************************************************************)
(* Claim C17.                                                              *)
(***************************************************************************)
FiveDirsOneMissing ==
  /\ Len(output_dirs) = 5
  /\ max_concurrent = 3
  /\ \E i \in 1..5 :
       /\ output_dirs[i] = "missing"
       /\ \A j \in (1..5) \ {i} : output_dirs[j] = "good"

\* C17: a batch over five directories, one of them missing its
\* thread_text.json and the others good, with three slots, reports 4
\* successes and 1 error and exits with code 1.
MissingTextIsReported ==
  batch_pc = "exited" /\ FiveDirsOneMissing =>
    /\ stats.success = 4
    /\ stats.errors = 1
    /\ batch_exit_code = 1

ValidUrl == Contains(tweet_url, <<"twitter.com">>) \/ Contains(tweet_url, <<"x.com">>)
MissingCredentials == ValidUrl /\ ~Truthy(effective_api_token)
UnreachableRoot == ValidUrl /\ Truthy(effective_api_token) /\ ~Truthy(main_tweet_data)
FatalScriptError == script_step = "failed"
EveryStageSucceeded == script_step = "skipped"

\* C19: a run of main exits with code 1 when the credentials are missing,
\* when the root tweet cannot be reached and when the generation of the
\* script failed, and with code 0 when every stage succeeded.
FatalStagesExitOne ==
  main_pc = "exited" =>
    /\ MissingCredentials \/ UnreachableRoot \/ FatalScriptError => exit_code = 1
    /\ EveryStageSucceeded => exit_code = 0

(***************************************************************************)
(* Claim C20.                                                              *)
(***************************************************************************)
\* C20: every path in the list that save_parsed_thread_data returned is the
\* path of a file that was written, so a thread_text.json or reply_text.json
\* whose write failed is not in the list.
ReturnedPathsWritten ==
  \A i \in 1..Len(saved_media_files) : saved_media_files[i] \in files

(***************************************************************************)
(* Claim C21.                                                              *)
(***************************************************************************)
\* A request that failed: one more candidate requested, and still no response.
RequestFailed == Len(requested') = Len(requested) + 1 /\ ~response'.given
NonFinalCandidate == attempt < Len(unique_fallback_models(model))
TimedOut == <<"Connection", SP, "timed", SP, "out">>

\* C21: a request to a candidate other than the last that fails, with an
\* error of any class, leaves the loop at the next candidate; the request
\* that is due is always the one of the first candidate not yet requested;
\* and a call whose loop ended without a response has requested every
\* candidate of the order.
FailureMovesToNextCandidate ==
  /\ [][pc = "request" /\ RequestFailed /\ NonFinalCandidate =>
          pc' = "request" /\ attempt' = attempt + 1 /\ result' = Running]_vars
  /\ [](pc = "request" =>
          attempt = Len(requested) + 1 /\ attempt <= Len(unique_fallback_models(model)))
  /\ [](pc = "returned" /\ style \in SCRIPT_STYLES /\ ~response.given =>
          requested = ExpectedOrder)
\* The third of four candidates failed with an error that is neither a
\* provider fault nor a rate limit, and the fourth answered.
LastCandidateAnswersAfterTimeout ==
  /\ pc = "returned"
  /\ Len(ExpectedOrder) = 4
  /\ requested = ExpectedOrder
  /\ last_error = TimedOut
  /\ response.given
  /\ HookText(result.value) = W(ExpectedOrder[4])

(***************************************************************************)
(* Claim C22.                                                              *)
(***************************************************************************)
CarriesVideo(record) == VariantsOf(record) # << >>
NoMp4(record) == CarriesVideo(record) /\ Mp4Of(record) = << >>

\* C22: for a record with variants none of which is MP4, in mediaDetails or
\* in video, extract_video_url returns the URL of the first variant; and it
\* returns None exactly when the record carries no video.
FirstVariantWithoutMp4 ==
  video_pc = "returned" =>
    /\ NoMp4(video_record) => video_url = UrlOf(VariantsOf(video_record)[1])
    /\ video_url = JNull <=> ~CarriesVideo(video_record)

(***************************************************************************)
(* Duration runs: validate_and_enhance_timing on parsed scripts whose      *)
(* sections come with a duration that is positive, zero, negative or       *)
(* missing, or do not come at all.                                         *)
(***************************************************************************)
\* A section with this duration and these cues; None leaves the key out.
SectionMade(text, duration, cues) ==
  JObj(<< <<<<"text">>, JStr(text)>> >>
       \o (IF duration = JNull THEN << >> ELSE << <<<<"duration_seconds">>, duration>> >>)
       \o (IF cues = << >> THEN << >> ELSE << <<<<"visual_cues">>, JArr(cues)>> >>))
SectionDurationsTried == {JNull, JNum(-5), JNum(0), JNum(10)}
\* The members of the script for a section: none for a section left out.
Absent == << >>
SectionsTried(name, text, cue_lists) ==
  {Absent} \cup {<< <<<<name>>, SectionMade(text, d, c)>> >> :
                   d \in SectionDurationsTried, c \in cue_lists}
DurationScriptsTried ==
  {JObj(hook \o intro \o explainer \o
        << <<<<"metadata">>, JObj(<< <<<<"total_duration">>, JNum(TotalDefault)>> >>)>> >>) :
     hook \in SectionsTried("hook", <<"a">>,
                            {<< >>, <<TimedCue(JNum(5), JNum(3))>>, <<TimedCue(JNull, JNum(3))>>}),
     intro \in SectionsTried("intro", <<"b">>, {<< >>, <<TimedCue(JNum(20), JNum(3))>>}),
     explainer \in SectionsTried("explainer", <<"c">>, {<< >>})}

InitDurations ==
  /\ script_data \in DurationScriptsTried
  /\ parsed_script = script_data
  /\ timing_pc = "parsed"
  /\ NoCall /\ NoExtract /\ NoMain /\ NoThread /\ NoVideo /\ NoBatch
SpecDurations == InitDurations /\ [][NextTiming]_vars

(***************************************************************************)
(* Claim C23.                                                              *)
(***************************************************************************)
\* The duration that the validation settles for a section of the parsed
\* script: its own when positive, the default otherwise.
GivenDuration(name) ==
  Get(Get(parsed_script, name, EmptyObj), "duration_seconds", JNum(0)).n
SettledDuration(name) ==
  IF GivenDuration(name) <= 0 THEN DefaultDuration(name) ELSE GivenDuration(name)
RECURSIVE SettledEnd(_)
SettledEnd(k) == IF k = 0 THEN 0 ELSE SettledEnd(k - 1) + SettledDuration(SectionNames[k])
\* The transitions of a rebuild whose running offset follows the settled
\* durations.
SettledTransitions ==
  [k \in 1..Len(SectionNames) |->
     [transition |-> SectionTransition(SettledEnd(k - 1), SettledDuration(SectionNames[k])),
      kept |-> SettledEnd(k) < TotalDefault]]
TransitionsKept == SelectSeq(SettledTransitions, LAMBDA x : x.kept)

\* C23: after the validation every section of hook, intro and explainer has
\* the duration it came with when that was positive and 15, 15 and 30
\* otherwise, and the rebuild of the timeline ran its offset over the same
\* durations.
DefaultDurationsSettled ==
  timing_pc = "validated" =>
    /\ \A k \in 1..Len(SectionNames) :
         Get(Get(script_data, SectionNames[k], EmptyObj), "duration_seconds", JNull)
           = JNum(SettledDuration(SectionNames[k]))
    /\ Get(Get(script_data, "visual_timeline", EmptyObj), "visual_transitions", JNull)
         = JArr([i \in 1..Len(TransitionsKept) |-> TransitionsKept[i].transition])

(***************************************************************************)
(* Timeline runs: validate_and_enhance_timing on scripts with cues in      *)
(* every section, with and without a visual_timeline of the model.         *)
(***************************************************************************)
\* A cue that shows this content; None leaves the timestamp out.
ContentCue(timestamp, content) ==
  JObj((IF timestamp = JNull THEN << >> ELSE << <<<<"timestamp">>, timestamp>> >>)
       \o << <<<<"type">>, W("text_overlay")>>, <<<<"content">>, W(content)>> >>)
\* The visual_timeline of the model: 45 seconds where the metadata say 60.
SuppliedTimeline ==
  JObj(<< <<<<"total_duration">>, JNum(45)>>,
          <<<<"timeline_events">>,
            JArr(<<JObj(<< <<<<"timestamp">>, JNum(1)>>, <<<<"content">>, W("old")>> >>)>>)>>,
          <<<<"pace">>, W("fast")>> >>)
TimelinesTried == {JNull, SuppliedTimeline, JObj(<< <<<<"pace">>, W("fast")>> >>), JArr(<< >>)}
TimelineScriptsTried ==
  {JObj(<< <<<<"hook">>, SectionMade(<<"a">>, JNum(15), h)>>,
           <<<<"intro">>, SectionMade(<<"b">>, JNum(15), i)>>,
           <<<<"explainer">>, SectionMade(<<"c">>, JNum(30), e)>>,
           <<<<"metadata">>, JObj(<< <<<<"total_duration">>, JNum(TotalDefault)>> >>)>> >>
        \o (IF t = JNull THEN << >> ELSE << <<<<"visual_timeline">>, t>> >>)) :
     h \in {<< >>, <<ContentCue(JNum(5), "h1")>>,
            <<ContentCue(JNum(5), "h1"), ContentCue(JNum(2), "h2")>>,
            <<ContentCue(JNull, "h1")>>},
     i \in {<< >>, <<ContentCue(JNum(20), "i1")>>,
            <<ContentCue(JNull, "i1"), ContentCue(JNum(16), "i2")>>},
     e \in {<< >>, <<ContentCue(JNum(40), "e1")>>,
            <<ContentCue(JNum(70), "e1"), ContentCue(JNum(31), "e2")>>},
     t \in TimelinesTried}

InitTimeline ==
  /\ script_data \in TimelineScriptsTried
  /\ parsed_script = script_data
  /\ timing_pc = "parsed"
  /\ NoCall /\ NoExtract /\ NoMain /\ NoThread /\ NoVideo /\ NoBatch
SpecTimeline == InitTimeline /\ [][NextTiming]_vars

(***************************************************************************)
(* Claim C24.                                                              *)
(***************************************************************************)
\* The rebuild ran and stored its lists: the validation reached line 493
\* without raising, and visual_timeline is missing or a dict.
RebuildStored ==
  /\ timing_pc = "validated"
  /\ ~ValidateSections([d |-> parsed_script, cur |-> 0, exc |-> FALSE], SectionNames).exc
  /\ IsObj(Get(parsed_script, "visual_timeline", EmptyObj))
\* What the cues of the sections show, hook first, and what the events show.
ContentsOf(items) == [i \in 1..Len(items) |-> Get(items[i], "content", JNull)]
CueContents ==
  ContentsOf(CuesOf(parsed_script, "hook")) \o ContentsOf(CuesOf(parsed_script, "intro"))
    \o ContentsOf(CuesOf(parsed_script, "explainer"))
EventsOf(script) == Get(Get(script, "visual_timeline", EmptyObj), "timeline_events", JArr(<< >>)).items

\* C24: the rebuild stores one event per cue of hook, intro and explainer, in
\* the order of the sections and of the cues inside a section, in place of
\* the timeline_events that the model supplied, and leaves a total_duration
\* that the model supplied as it was.
EventsRebuiltFromCues ==
  RebuildStored =>
    /\ ContentsOf(EventsOf(script_data)) = CueContents
    /\ Has(Get(parsed_script, "visual_timeline", EmptyObj), "total_duration") =>
         Item(Item(script_data, "visual_timeline"), "total_duration")
           = Item(Item(parsed_script, "visual_timeline"), "total_duration")
\* Five cues over the three sections and a supplied timeline of 45 seconds
\* with an event of its own.
SuppliedEventsReplaced ==
  /\ RebuildStored
  /\ Get(parsed_script, "visual_timeline", JNull) = SuppliedTimeline
  /\ CueContents = <<W("h1"), W("h2"), W("i1"), W("i2"), W("e1")>>
  /\ Len(EventsOf(script_data)) = 5
  /\ Item(Item(script_data, "visual_timeline"), "total_duration") = JNum(45)

(***************************************************************************)
(* Claim C25.                                                              *)
(***************************************************************************)
CountOf(text, a) == Cardinality({i \in 1..Len(text) : text[i] = a})
BraceDeficit(text) == CountOf(text, LB) - CountOf(text, RB)
\* The text from its first opening brace on, and with the braces it lacks.
FromFirstBrace(text) == SubSeq(text, IndexFrom(text, LB, 1), Len(text))
BracesAppended(text) == text \o [i \in 1..BraceDeficit(text) |-> RB]
\* The lengths of the text without some of its last lines for which the
\* braces match and the rest parses.
ParsingCuts(text) ==
  {n \in 0..Len(text) :
     /\ n = Len(text) \/ text[n + 1] = NL
     /\ BraceDeficit(SubSeq(text, 1, n)) = 0
     /\ json_loads(SubSeq(text, 1, n)).ok}
LongestCut(text) == CHOOSE n \in ParsingCuts(text) : \A m \in ParsingCuts(text) : m <= n
\* What closing the braces, and then dropping last lines, makes of the text.
BraceRepair(text) ==
  IF json_loads(BracesAppended(text)).ok THEN json_loads(BracesAppended(text))
  ELSE IF ParsingCuts(text) # {} THEN json_loads(SubSeq(text, 1, LongestCut(text)))
  ELSE [ok |-> FALSE, v |-> JNull]

\* C25: for an output with more opening than closing braces that parses once
\* the missing braces are appended, or once its last lines are dropped until
\* the braces match, the call returns the validated script of that parse and
\* not the placeholder.
OpenBracesRepaired ==
  /\ Normalized
  /\ BraceDeficit(generated_content) > 0
  /\ BraceRepair(FromFirstBrace(generated_content)).ok
  => result.value = validate_and_enhance_timing(BraceRepair(FromFirstBrace(generated_content)).v)

(***************************************************************************)
(* Claim C26.                                                              *)
(***************************************************************************)
\* The directories whose task asked for a script and returned False.
FailedAfterRequest ==
  {d \in 1..Len(output_dirs) :
     task_result[d] = "False" /\ output_dirs[d] \in {"gen_fails", "save_fails"}}

\* C26: a directory whose processing failed has been tried again before it
\* was counted as an error: its task asked for the script more than once.
FailedDirectoryRetried ==
  \A d \in FailedAfterRequest : requests[d] > 1

(***************************************************************************)
(* Claim C27: runs of the two assemblies on roots that hold several        *)
(* sources of the author.                                                  *)
(***************************************************************************)
ReplyUrlTried(segment) ==
  JStr(<<"https:", SLASH, SLASH, "x.com", SLASH, segment, SLASH, "status", SLASH, "9">>)
\* Each source of the author: absent, present without a name, present with one.
UserSourcesTried ==
  {<< >>, << <<<<"user">>, JObj(<< <<<<"id_str">>, W("42")>> >>)>> >>, << <<<<"user">>, Alice>> >>}
AuthorSourcesTried ==
  {<< >>, << <<<<"author">>, JObj(<< <<<<"followers">>, JNum(3)>> >>)>> >>,
   << <<<<"author">>, JObj(<< <<<<"username">>, W("bob")>> >>)>> >>}
FlatSourcesTried == {<< >>, << <<<<"username">>, W("carol")>> >>}
UrlSourcesTried ==
  {<< >>, << <<<<"replyUrl">>, ReplyUrlTried("i")>> >>,
   << <<<<"replyUrl">>, ReplyUrlTried("dave")>> >>}
AuthorRootsTried ==
  {JObj(<< <<<<"id_str">>, W("T1")>> >> \o u \o a \o f \o r) :
     u \in UserSourcesTried, a \in AuthorSourcesTried, f \in FlatSourcesTried,
     r \in UrlSourcesTried}
InitAuthor ==
  /\ thread_tweet \in AuthorRootsTried
  /\ thread_replies = JArr(<< >>)
  /\ tree = Value(JNull) /\ thread_text = JArr(<< >>) /\ thread_done = {}
  /\ NoCall /\ NoTiming /\ NoExtract /\ NoMain /\ NoVideo /\ NoBatch
SpecAuthor == InitAuthor /\ [][NextThread]_vars

\* The sources of the author of a record that yield a value, in the order
\* user, author, flat keys, reply URL.
NestedName(record, key, names) ==
  IF IsObj(Get(record, key, JNull)) THEN GetFirstTruthy(Item(record, key), names) ELSE JNull
RepliedTo(record) ==
  IF IsStr(Get(record, "replyUrl", JNull))
  THEN UrlUsername(Item(record, "replyUrl"), ParserRejected)
  ELSE JNull
SourcesInOrder(record) ==
  <<NestedName(record, "user", <<"screen_name">>),
    NestedName(record, "author", <<"screen_name", "username", "name">>),
    GetFirstTruthy(record, direct_fields),
    RepliedTo(record)>>
YieldingSources(record) == SelectSeq(SourcesInOrder(record), Truthy)
\* The author a thread is filed under, and the author of its first text.
TreeAuthor == Item(tree.v, "user_screen_name")
FirstTextAuthor == Item(thread_text.items[1], "author")

\* C27: the author of a record is the value of the first of its sources that
\* yields one, in the order user.screen_name, author.screen_name, .username,
\* .name, the flat keys, and last the segment of replyUrl other than
\* undefined, status, i and web; a source that is present and yields nothing
\* does not keep a later source from being used.
FirstYieldingSourceResolves ==
  YieldingSources(thread_tweet) # << >> =>
    /\ "parse" \in thread_done => ~tree.exc /\ TreeAuthor = YieldingSources(thread_tweet)[1]
    /\ "text" \in thread_done =>
         /\ Len(thread_text.items) = 1
         /\ FirstTextAuthor = YieldingSources(thread_tweet)[1]

(***************************************************************************)
(* Claim C28.                                                              *)
(***************************************************************************)
\* The sections of the parsed script last a positive number of seconds each
\* and metadata.total_duration in all.
DurationsFillTotal ==
  /\ \A name \in SectionSet :
       /\ IsNum(Get(Get(parsed_script, name, EmptyObj), "duration_seconds", JNull))
       /\ Item(Item(parsed_script, name), "duration_seconds").n > 0
  /\ Get(Get(parsed_script, "metadata", EmptyObj), "total_duration", JNull)
       = JNum(SectionStart(parsed_script, "explainer")
              + Item(Item(parsed_script, "explainer"), "duration_seconds").n)
\* The cues of a validated script with the section that owns each, hook first.
OwnedBy(script, name) ==
  [i \in 1..Len(CuesOf(script, name)) |-> [cue |-> CuesOf(script, name)[i], owner |-> name]]
OwnedCues(script) ==
  OwnedBy(script, "hook") \o OwnedBy(script, "intro") \o OwnedBy(script, "explainer")

\* C28: when the sections last a positive time each and total_duration in
\* all, every event of the rebuilt timeline carries the clamped timestamp of
\* its cue, which lies in the window of the section that owns the cue, from
\* its start up to but not including its end.
EventsInsideSections ==
  RebuildStored /\ DurationsFillTotal =>
    /\ Len(EventsOf(script_data)) = Len(OwnedCues(script_data))
    /\ \A k \in 1..Len(EventsOf(script_data)) :
         /\ Get(EventsOf(script_data)[k], "timestamp", JNull)
              = Get(OwnedCues(script_data)[k].cue, "timestamp", JNull)
         /\ CueInWindow(EventsOf(script_data)[k],
                        SectionStart(script_data, OwnedCues(script_data)[k].owner),
                        Item(Item(script_data, OwnedCues(script_data)[k].owner),
                             "duration_seconds").n)

(***************************************************************************)
(* Claim C29.                                                              *)
(***************************************************************************)
\* The directories whose task has started, has written a script, has failed.
StartedDirs ==
  {d \in 1..Len(output_dirs) : task_pc[d] = "generating" \/ task_result[d] # "none"}
WrittenDirs == {d \in 1..Len(output_dirs) : script_writes[d] > 0}
FailedDirs == {d \in 1..Len(output_dirs) : task_result[d] = "False"}
\* The discovered directories that are skipped for the script they hold.
SkippedDirs ==
  {d \in 1..Len(output_dirs) : output_dirs[d] = "existing" /\ ~force_regenerate}
BatchReturned == batch_pc \in {"reported", "exited"}

\* C29: at every point of a batch run the successes and the errors together
\* are at most the processed directories, which are at most the discovered
\* ones; every task that started, wrote or failed is counted once; and what
\* process_all_threads returns counts every discovered directory as
\* processed, each one a success, an error or a skip.
CountersConsistent ==
  /\ success_count + error_count <= processed_count
  /\ processed_count <= Len(find_thread_directories(output_dirs))
  /\ processed_count = Cardinality(StartedDirs)
  /\ success_count = Cardinality(WrittenDirs)
  /\ error_count = Cardinality(FailedDirs)
  /\ BatchReturned =>
       /\ stats.processed = Len(find_thread_directories(output_dirs))
       /\ stats.success + stats.errors + Cardinality(SkippedDirs) = stats.processed
\* A run of three tasks that share one slot returned one success, one error
\* and one skip.
MixedBatchCounted ==
  /\ BatchReturned
  /\ output_dirs = <<"existing", "gen_fails", "good">>
  /\ ~force_regenerate /\ max_concurrent = 1
  /\ stats = [processed |-> 3, success |-> 1, errors |-> 1]
\* Two requests are in flight while a third task has ended.
TwoRequestsInFlight ==
  /\ batch_pc = "gathering"
  /\ Cardinality({d \in 1..Len(output_dirs) : task_pc[d] = "generating"}) = 2
  /\ processed_count = 3 /\ error_count = 1

(***************************************************************************)
(* Claim C30.                                                              *)
(***************************************************************************)
\* The directories that held a tiktok_script.json when the run began.
HeldScript == {d \in 1..Len(output_dirs) : output_dirs[d] = "existing"}
EndedDirs == {d \in 1..Len(output_dirs) : task_pc[d] = "done"}

\* C30: without force_regenerate no request is ever made for a directory
\* that holds a script and its script is never written; when its task has
\* ended it returned True and is counted as processed only, so a run over
\* directories that all hold a script returns no success and no error.  With
\* force_regenerate a directory that holds a script is asked for and written
\* again like any other.
ExistingScriptsSkipped ==
  /\ ~force_regenerate =>
       /\ \A d \in HeldScript :
            /\ requests[d] = 0 /\ script_writes[d] = 0 /\ d \in script_files
            /\ d \in EndedDirs => task_result[d] = "True" /\ d \in StartedDirs
       /\ BatchReturned =>
            stats.success + stats.errors = stats.processed - Cardinality(HeldScript)
       /\ BatchReturned /\ HeldScript = 1..Len(output_dirs) =>
            stats = [processed |-> Len(output_dirs), success |-> 0, errors |-> 0]
  /\ force_regenerate =>
       \A d \in HeldScript \cap EndedDirs :
         requests[d] = 1 /\ script_writes[d] = 1 /\ task_result[d] = "True"
\* A second run over three directories that were all generated before.
RerunDoesNothing ==
  /\ batch_pc = "exited"
  /\ output_dirs = <<"existing", "existing", "existing">>
  /\ ~force_regenerate
  /\ stats = [processed |-> 3, success |-> 0, errors |-> 0]
  /\ requests = <<0, 0, 0>> /\ script_writes = <<0, 0, 0>>
\* The same three directories regenerated with --force.
ForcedRerunRegenerates ==
  /\ batch_pc = "exited"
  /\ output_dirs = <<"existing", "existing", "existing">>
  /\ force_regenerate
  /\ stats = [processed |-> 3, success |-> 3, errors |-> 0]
  /\ script_writes = <<1, 1, 1>>

====
